---- MODULE Spec2Model ----
(***************************************************************************)
(* State-machine model of the recruitment platform's client-side state     *)
(* layer: the Session Store (context/AuthContext.jsx), the API gateway     *)
(* client (services/api) and the JobDetail pipeline controller.            *)
(*                                                                         *)
(* Every HTTP exchange is split the way the promise chain splits it:       *)
(*   the call            - the request interceptor runs and the request is *)
(*                         put in flight;                                  *)
(*   Respond             - the server's answer arrives and the gateway's   *)
(*                         response interceptor runs;                      *)
(*   Continue            - the awaiting caller resumes (try / catch /      *)
(*                         finally) in the same microtask drain, so no     *)
(*                         other handler runs between the two.             *)
(* The server is the environment: what it answers is chosen with \E.       *)
(***************************************************************************)
EXTENDS Integers, FiniteSets, Sequences, TLC

\* ------------------------------------------------------------------------
\* Bounds of the model
\* ------------------------------------------------------------------------
\* requests that may be in flight at the same time
MaxInflight == 2
\* assignments to window.location.href the model follows within one page load
MaxNav == 2

\* ------------------------------------------------------------------------
\* Values
\* ------------------------------------------------------------------------
\* JavaScript null / undefined, and an absent field
NULL == "null"

\* bearer credentials: "t1" is the one persisted by an earlier visit
Tokens == {"t1", "t2"}
\* the credential the backend issues at login / register
IssuedTokens == {"t2"}
\* user records the backend may return
Users == {"u1", "u2"}
\* error.response.data.detail: absent, empty, or a message
Details == {NULL, "", "Invalid credentials"}
\* response statuses; 0 stands for an error without a response (network failure)
Statuses == {200, 400, 401, 0}
\* request bodies of the session calls
Bodies == {"fields"}

\* JavaScript truthiness of a string-or-null value
Truthy(v) == v # NULL /\ v # ""

\* JSON.stringify of a user record
Stringify(u) == "{" \o u \o "}"

\* authenticated operations of the session store
SessionOps == {"auth.getCurrentUser", "auth.login", "auth.register", "auth.updateProfile"}
\* an authenticated call of any other controller
ControllerOps == {"jobs.getAll"}
\* the public job-board surface
PublicOps == {"public.getJobs", "public.getJob", "public.apply", "public.getStatus"}

VARIABLES
    \* ---- Session Store (AuthProvider) ----
    user,          \* useState(null)
    loading,       \* useState(true)
    error,         \* useState(null)
    mounted,       \* the mount effect (loadUser) has run
    returned,      \* what the step just taken handed to its caller: [op, kind, value]
    \* ---- browser ----
    localStorage,  \* [token |-> ..., user |-> ...]
    location,      \* the route shown
    navPending,    \* window.location.href was assigned; the page load is pending
    navCount,      \* number of assignments to window.location.href
    \* ---- network ----
    inflight,      \* requests sent and not yet answered
    settling,      \* {} or {the answer the interceptor has just passed on}
    \* ---- JobDetail ----
    job,           \* useState(null): the job record (its status)
    pipeline,      \* useState(null)
    applications,  \* useState([]): application id |-> row
    jdLoading,     \* useState(true): JobDetail's loading
    statusFilter,  \* useState(null)
    funnelStage,   \* useState(null)
    selected,      \* useState(new Set())
    bulkLoading,   \* useState(false)
    jobRes,        \* init: the job answer held until Promise.all settles
    noteApp,       \* useState(null): the application (its id) the note modal is open on
    jdInflight,    \* JobDetail's requests sent and not yet answered
    jdDelivered,   \* {} or {the answer the step just taken delivered}
    \* ---- the mounted list controller (Jobs, Applications, Screenings, BrowseJobs, Candidates) ----
    lcPage,        \* which list controller is mounted
    lcItems,       \* useState([]): jobs / applications / screenings / candidates
    lcLoading,     \* useState(true): the controller's loading
    searchTerm,    \* Jobs, Candidates: useState(''), the text in the search box
    searchInput,   \* BrowseJobs: useState(''), the text in the search box
    search,        \* BrowseJobs: useState(''), the search in force
    lcStatusFilter, \* Jobs, Applications, Screenings: useState(''), statusFilter
    selectedJob,   \* Applications: useState('')
    jobType,       \* BrowseJobs: useState('')
    submitted,     \* the text of the search box at the last submit of the search form
    lcInflight,    \* the controller's requests sent and not yet answered
    lcSecond,      \* Applications: useState([]), jobs; Screenings: useState([]), applications
    lcCalls,       \* Applications, Screenings: the loader calls with an answer outstanding
    lcDelivered,   \* {} or {the answer the step just taken delivered}
    \* ---- the form controller (a create modal of a list page, or ApplyJob) ----
    form,          \* which form controller this is
    showCreateModal, \* useState(false) of the list page: the modal is mounted
    fmInst,        \* the mounted modal instance: each opening mounts a new one
    formData,      \* useState({...}): the required field of the form
    fmLoading,     \* useState(false): the form's loading (ApplyJob: submitting)
    fmError,       \* useState(''): the form's error
    applySubmitted, \* ApplyJob: useState(false), submitted
    applyJob,      \* ApplyJob: useState(null), job
    applyLoading,  \* ApplyJob: useState(true), loading
    fmInflight,    \* the form's submissions sent and not yet answered
    fmDelivered,   \* {} or {the answer the step just taken delivered}
    \* ---- Dashboard ----
    stats,         \* useState(null)
    dbPipeline,    \* useState(null): pipeline
    recentApplications, \* useState([])
    topJobs,       \* useState([])
    dbLoading,     \* useState(true): loading
    dbInflight,    \* the requests of loadDashboardData sent and not yet answered
    dbResults,     \* Promise.all: the values of the requests resolved so far
    dbPromise,     \* Promise.all: "pending", "fulfilled" or "rejected"
    \* ---- Settings ----
    autoInvite,    \* useState(false)
    threshold,     \* useState(75)
    stLoading,     \* useState(true): loading
    saving,        \* useState(false)
    saved,         \* useState(false)
    savedTimers,   \* setTimeout(() => setSaved(false), 3000) pending
    stInflight,    \* the requests of Settings sent and not yet answered
    typed          \* {} or {e.target.value of the change event the step just taken handled}

authVars == <<user, loading, error, mounted, returned>>
browserVars == <<localStorage, location, navPending, navCount>>
netVars == <<inflight, settling>>
jdVars == <<job, pipeline, applications, jdLoading, statusFilter, funnelStage, selected,
           bulkLoading, jobRes, noteApp, jdInflight, jdDelivered>>
lcVars == <<lcPage, lcItems, lcLoading, searchTerm, searchInput, search, lcStatusFilter,
           selectedJob, jobType, submitted, lcInflight, lcSecond, lcCalls, lcDelivered>>
fmState == <<form, showCreateModal, fmInst, formData, fmLoading, fmError, applySubmitted,
            applyJob, applyLoading, fmInflight>>
fmVars == <<fmState, fmDelivered>>
dbVars == <<stats, dbPipeline, recentApplications, topJobs, dbLoading, dbInflight, dbResults,
           dbPromise>>
stVars == <<autoInvite, threshold, stLoading, saving, saved, savedTimers, stInflight,
           typed>>
pgVars == <<fmVars, dbVars, stVars>>
vars == <<authVars, browserVars, netVars, jdVars, lcVars, pgVars>>

\* ------------------------------------------------------------------------
\* Durable client storage
\* ------------------------------------------------------------------------
getItem(ls, k) == ls[k]
setItem(ls, k, v) == [ls EXCEPT ![k] = v]
removeItem(ls, k) == [ls EXCEPT ![k] = NULL]

\* ------------------------------------------------------------------------
\* API gateway client
\* ------------------------------------------------------------------------
\* variant: the header is attached whether or not a token is stored
RequestInterceptorUnconditional(ls) == "Bearer " \o getItem(ls, "token")

\* api.interceptors.request.use: the Authorization header of an outgoing request
RequestInterceptor(ls) ==
    LET token == getItem(ls, "token")
    IN  IF Truthy(token) THEN "Bearer " \o token ELSE NULL

\* a request of the authenticated client
ApiRequest(ls, op, body) ==
    [client |-> "api", op |-> op, body |-> body, auth |-> RequestInterceptor(ls)]

\* variant: the public surface is served by the authenticated client
PublicRequestViaApi(ls, op, body) ==
    [client |-> "public", op |-> op, body |-> body, auth |-> RequestInterceptor(ls)]

\* a request of the credential-free client: no interceptor is installed on it
PublicRequest(ls, op, body) ==
    [client |-> "public", op |-> op, body |-> body, auth |-> NULL]

\* axios rejects the promise unless the status is 2xx
IsError(resp) == ~(resp.status >= 200 /\ resp.status < 300)

\* the answers the backend can give to a request
Responses(req) ==
    { [status |-> 200, access_token |-> t, user |-> u, detail |-> NULL] :
        t \in (IF req.op \in {"auth.login", "auth.register"} THEN IssuedTokens ELSE {NULL}),
        u \in (IF req.op \in SessionOps THEN Users ELSE {NULL}) }
    \cup
    UNION { { [status |-> s, access_token |-> NULL, user |-> NULL, detail |-> d] :
                d \in (IF s = 0 THEN {NULL} ELSE Details) } :
            s \in Statuses \ {200} }

\* variant: the interceptor reacts to 403 instead of 401
ClearsSessionOn403(resp) == resp.status = 403

\* api.interceptors.response.use, error branch: does this answer clear the session?
ClearsSession(resp) == resp.status = 401

\* api.interceptors.response.use: storage after the interceptor has seen resp
ResponseInterceptorStorage(ls, resp) ==
    IF IsError(resp) /\ ClearsSession(resp)
    THEN removeItem(removeItem(ls, "token"), "user")
    ELSE ls

\* a further request may be put in flight (the model's bound)
CanIssue(req) == Cardinality(inflight) < MaxInflight /\ req \notin inflight
\* no answer is between the interceptor and its caller
Idle == settling = {}

\* the step handed nothing to a caller of the session store
NoReturn == [op |-> "none", kind |-> "none", value |-> NULL]

\* ------------------------------------------------------------------------
\* Initial state: the page has loaded, AuthProvider is constructed
\* ------------------------------------------------------------------------
InitSession ==
    /\ user = NULL
    /\ loading = TRUE
    /\ error = NULL
    /\ mounted = FALSE
    /\ returned = NoReturn
    /\ localStorage \in { [token |-> t, user |-> u] :
            t \in {NULL, "t1"}, u \in {NULL, Stringify("u1")} }
    /\ location = "/dashboard"
    /\ navPending = FALSE
    /\ navCount = 0
    /\ inflight = {}
    /\ settling = {}

\* ------------------------------------------------------------------------
\* Session Store operations
\* ------------------------------------------------------------------------
\* useEffect(() => { loadUser(); }): loadUser up to its await
AppStart ==
    /\ Idle /\ ~mounted
    /\ mounted' = TRUE
    /\ IF ~Truthy(getItem(localStorage, "token"))
       THEN /\ loading' = FALSE
            /\ UNCHANGED inflight
       ELSE /\ inflight' = inflight \cup
                 {ApiRequest(localStorage, "auth.getCurrentUser", NULL)}
            /\ UNCHANGED loading
    /\ returned' = NoReturn
    /\ UNCHANGED <<user, error, browserVars, settling, jdVars, lcVars, pgVars>>

\* the error state when login / register starts: setError(null)
SignInStartError(e) == NULL

\* login(email, password) up to its await
Login(body) ==
    LET req == ApiRequest(localStorage, "auth.login", body)
    IN  /\ Idle /\ mounted /\ CanIssue(req)
        /\ error' = SignInStartError(error)
        /\ inflight' = inflight \cup {req}
        /\ returned' = NoReturn
        /\ UNCHANGED <<user, loading, mounted, browserVars, settling, jdVars, lcVars, pgVars>>

\* register(userData) up to its await
Register(body) ==
    LET req == ApiRequest(localStorage, "auth.register", body)
    IN  /\ Idle /\ mounted /\ CanIssue(req)
        /\ error' = SignInStartError(error)
        /\ inflight' = inflight \cup {req}
        /\ returned' = NoReturn
        /\ UNCHANGED <<user, loading, mounted, browserVars, settling, jdVars, lcVars, pgVars>>

\* updateProfile(data) up to its await
UpdateProfile(body) ==
    LET req == ApiRequest(localStorage, "auth.updateProfile", body)
    IN  /\ Idle /\ mounted /\ CanIssue(req)
        /\ inflight' = inflight \cup {req}
        /\ returned' = NoReturn
        /\ UNCHANGED <<user, loading, error, mounted, browserVars, settling, jdVars, lcVars, pgVars>>

\* variant: logout forgets the stored user record
LogoutStorageTokenOnly(ls) == removeItem(ls, "token")

\* storage after logout()
LogoutStorage(ls) == removeItem(removeItem(ls, "token"), "user")

\* logout()
Logout ==
    /\ Idle /\ mounted
    /\ localStorage' = LogoutStorage(localStorage)
    /\ user' = NULL
    /\ returned' = [op |-> "logout", kind |-> "returned", value |-> NULL]
    /\ UNCHANGED <<loading, error, mounted, location, navPending, navCount, netVars, jdVars, lcVars, pgVars>>

\* Sidebar.handleLogout: logout(), then navigate('/login') inside the router
HandleLogout ==
    /\ Idle /\ mounted
    /\ localStorage' = LogoutStorage(localStorage)
    /\ user' = NULL
    /\ location' = "/login"
    /\ returned' = [op |-> "logout", kind |-> "returned", value |-> NULL]
    /\ UNCHANGED <<loading, error, mounted, navPending, navCount, netVars, jdVars, lcVars, pgVars>>

\* an authenticated call issued by any other controller
ControllerCall(op) ==
    LET req == ApiRequest(localStorage, op, NULL)
    IN  /\ Idle /\ mounted /\ CanIssue(req)
        /\ inflight' = inflight \cup {req}
        /\ returned' = NoReturn
        /\ UNCHANGED <<user, loading, error, mounted, browserVars, settling, jdVars, lcVars, pgVars>>

\* a call on the public surface
PublicCall(op) ==
    LET req == PublicRequest(localStorage, op, NULL)
    IN  /\ Idle /\ mounted /\ CanIssue(req)
        /\ inflight' = inflight \cup {req}
        /\ returned' = NoReturn
        /\ UNCHANGED <<user, loading, error, mounted, browserVars, settling, jdVars, lcVars, pgVars>>

\* ------------------------------------------------------------------------
\* An answer arrives: the response interceptor of the client that sent it
\* ------------------------------------------------------------------------
Respond(req, resp) ==
    /\ Idle
    /\ req \in inflight
    /\ resp \in Responses(req)
    /\ inflight' = inflight \ {req}
    /\ settling' = {[req |-> req, resp |-> resp, rejected |-> IsError(resp)]}
    /\ IF req.client = "api"
       THEN /\ localStorage' = ResponseInterceptorStorage(localStorage, resp)
            /\ IF IsError(resp) /\ ClearsSession(resp)
               THEN /\ navCount < MaxNav
                    /\ location' = "/login"
                    /\ navPending' = TRUE
                    /\ navCount' = navCount + 1
               ELSE UNCHANGED <<location, navPending, navCount>>
       ELSE UNCHANGED browserVars
    /\ returned' = NoReturn
    /\ UNCHANGED <<user, loading, error, mounted, jdVars, lcVars, pgVars>>

\* err.response?.data?.detail || fallback
ErrorMessage(resp, fallback) == IF Truthy(resp.detail) THEN resp.detail ELSE fallback

LoginFallback == "Login failed. Please try again."
RegisterFallback == "Registration failed. Please try again."
UpdateFallback == "Failed to update profile."

\* variant: the catch block leaves the stale token in place
LoadUserFailedStorageKeepsToken(ls) == removeItem(ls, "user")

\* storage after loadUser's catch block
LoadUserFailedStorage(ls) == removeItem(removeItem(ls, "token"), "user")

\* loadUser after its await
ContinueLoadUser(s) ==
    /\ IF ~s.rejected
       THEN /\ user' = s.resp.user
            /\ localStorage' = setItem(localStorage, "user", Stringify(s.resp.user))
       ELSE /\ localStorage' = LoadUserFailedStorage(localStorage)
            /\ UNCHANGED user
    /\ loading' = FALSE
    /\ returned' = [op |-> s.req.op, kind |-> IF s.rejected THEN "caught" ELSE "resolved",
                    value |-> NULL]
    /\ UNCHANGED error

\* variant: only the token is persisted
SignInStorageTokenOnly(ls, resp) == setItem(ls, "token", resp.access_token)

\* storage after a successful login / register
SignInStorage(ls, resp) ==
    setItem(setItem(ls, "token", resp.access_token), "user", Stringify(resp.user))

\* variant: the backend's detail is dropped
SignInErrorFallbackOnly(resp, fallback) == fallback

\* the error state after a failed login / register
SignInError(resp, fallback) == ErrorMessage(resp, fallback)

\* login / register after the await
ContinueSignIn(s, fallback) ==
    /\ IF ~s.rejected
       THEN /\ localStorage' = SignInStorage(localStorage, s.resp)
            /\ user' = s.resp.user
            /\ returned' = [op |-> s.req.op, kind |-> "resolved", value |-> s.resp.user]
            /\ UNCHANGED error
       ELSE /\ error' = SignInError(s.resp, fallback)
            /\ returned' = [op |-> s.req.op, kind |-> "rejected",
                            value |-> ErrorMessage(s.resp, fallback)]
            /\ UNCHANGED <<user, localStorage>>
    /\ UNCHANGED loading

\* updateProfile after its await
ContinueUpdateProfile(s) ==
    /\ IF ~s.rejected
       THEN /\ user' = s.resp.user
            /\ localStorage' = setItem(localStorage, "user", Stringify(s.resp.user))
            /\ returned' = [op |-> s.req.op, kind |-> "resolved", value |-> s.resp.user]
       ELSE /\ returned' = [op |-> s.req.op, kind |-> "rejected",
                            value |-> ErrorMessage(s.resp, UpdateFallback)]
            /\ UNCHANGED <<user, localStorage>>
    /\ UNCHANGED <<loading, error>>

\* a controller outside the session store resumes: the session is not its business
ContinueOther(s) ==
    /\ returned' = NoReturn
    /\ UNCHANGED <<user, loading, error, localStorage>>

\* the awaiting caller resumes
Continue ==
    /\ settling # {}
    /\ LET s == CHOOSE x \in settling : TRUE
       IN  CASE s.req.op = "auth.getCurrentUser" -> ContinueLoadUser(s)
             [] s.req.op = "auth.login" -> ContinueSignIn(s, LoginFallback)
             [] s.req.op = "auth.register" -> ContinueSignIn(s, RegisterFallback)
             [] s.req.op = "auth.updateProfile" -> ContinueUpdateProfile(s)
             [] OTHER -> ContinueOther(s)
    /\ settling' = {}
    /\ UNCHANGED <<mounted, location, navPending, navCount, inflight, jdVars, lcVars, pgVars>>

\* the page load that an assignment to window.location.href starts: the
\* application is constructed anew, storage survives, pending requests are dropped
PageReload ==
    /\ Idle /\ navPending
    /\ navPending' = FALSE
    /\ navCount' = 0
    /\ user' = NULL
    /\ loading' = TRUE
    /\ error' = NULL
    /\ mounted' = FALSE
    /\ returned' = NoReturn
    /\ inflight' = {}
    /\ UNCHANGED <<localStorage, location, settling, jdVars, lcVars, pgVars>>

\* ------------------------------------------------------------------------
\* JobDetail: values
\* ------------------------------------------------------------------------
\* ids of the job's applications
AppIds == {5, 9}
\* no application id
NoId == 0
\* Application.status values of the rows the backend lists
RowStatuses == {"pending", "shortlisted"}
\* Application.status values of the record the backend returns from shortlist / reject
RecordStatuses == {"shortlisted", "rejected"}
\* the screening statuses found on one application: none, an active one, a finished one
ScreeningSets == {{}, {"scheduled"}, {"completed"}}
\* the job record the backend returns
JobStatuses == {"active"}
\* the pipeline summary the backend returns
Pipelines == {"summary"}
\* Job.status values of the record a job operation returns
JobRecordStatuses == {"draft", "active", "paused", "closed"}
\* the job operations of the header
JobOps == {"jobs.publish", "jobs.close", "jobs.update"}
\* the actions handleJobAction knows
JobActions == {"publish", "pause", "close", "reopen"}

\* FILTER_PILLS: the values of the status pills
FILTER_PILLS ==
    {NULL, "pending", "screening", "shortlisted", "interview", "offered", "hired", "rejected"}

\* the pills clicked where filters and selection are followed
PillInputs == {NULL, "pending", "rejected"}
\* the pill clicked where the rows are followed: "All", which reloads the whole list
ReloadPill == {NULL}

\* the funnel segments PipelineFunnel renders
FunnelStages == {"applied", "screening", "shortlisted", "rejected"}

\* FUNNEL_TO_PILL with applied mapped to the pending pill
FUNNEL_TO_PILL_AppliedPending ==
    [stage \in FunnelStages |-> IF stage = "applied" THEN "pending" ELSE stage]

\* FUNNEL_TO_PILL
FUNNEL_TO_PILL ==
    [stage \in FunnelStages |->
        CASE stage = "applied" -> NULL
          [] stage = "screening" -> "screening"
          [] stage = "shortlisted" -> "shortlisted"
          [] stage = "rejected" -> "rejected"]

\* a row of the application list
Row(status, screenings) == [status |-> status, screenings |-> screenings]

\* hasActiveScreening with every screening counted as active
hasAnyScreening(app) == app.screenings # {}

\* CandidateRow: hasActiveScreening
hasActiveScreening(app) ==
    \E s \in app.screenings : s \in {"scheduled", "in_progress"}
\* CandidateRow: disableApprove
disableApprove(app) == app.status \in {"shortlisted", "interview", "offered", "hired"}
\* CandidateRow: disableReject
disableReject(app) == app.status = "rejected"

\* a request of JobDetail: operation, status parameter, application id, id set, issuer
JdRequest(op, status, id, ids, owner) ==
    [op |-> op, status |-> status, id |-> id, ids |-> ids, owner |-> owner]

\* jobsAPI.getById(id)
GetByIdRequest == JdRequest("jobs.getById", NULL, NoId, {}, "init")
\* loadPipeline(): jobsAPI.getPipeline(id)
PipelineRequest(owner) == JdRequest("jobs.getPipeline", NULL, NoId, {}, owner)
\* loadApplications(filter): params.status is set only for a truthy filter
ListRequest(filter, owner) ==
    JdRequest("applications.getAll", IF Truthy(filter) THEN filter ELSE NULL, NoId, {}, owner)

\* the rows the backend lists where the rows are followed
RichRows == { Row(s, scr) : s \in RowStatuses, scr \in ScreeningSets }
\* the rows the backend lists where filters and selection are followed
PlainRows == { Row("pending", {}) }

\* the lists the backend can answer with: applications, drawn from rows, whose
\* status matches the status parameter
ServerLists(status, rows) ==
    UNION { [ids -> { r \in rows : status = NULL \/ r.status = status }] :
            ids \in SUBSET AppIds }

\* the application records the backend can answer a row operation on id with;
\* the record may or may not carry the screenings list
ServerRecords(id) ==
    { [id |-> id, status |-> s, screenings |-> scr, withScreenings |-> w] :
        s \in RecordStatuses, scr \in ScreeningSets, w \in BOOLEAN }

\* a further JobDetail request may be put in flight (the model's bound)
JdCanIssue(req) == Cardinality(jdInflight) < MaxInflight /\ req \notin jdInflight

\* the view renders the job, its funnel and its table
JdInteractive == ~jdLoading /\ job # NULL

\* Settings: useState(75), the threshold before the settings are loaded
DefaultThreshold == 75

\* no form controller is mounted
NoForm ==
    /\ form = "none"
    /\ showCreateModal = FALSE
    /\ fmInst = 0
    /\ formData = ""
    /\ fmLoading = FALSE
    /\ fmError = ""
    /\ applySubmitted = FALSE
    /\ applyJob = NULL
    /\ applyLoading = TRUE
    /\ fmInflight = {}
    /\ fmDelivered = {}

\* the Dashboard is not mounted
NoDashboard ==
    /\ stats = NULL
    /\ dbPipeline = NULL
    /\ recentApplications = "empty"
    /\ topJobs = "empty"
    /\ dbLoading = TRUE
    /\ dbInflight = {}
    /\ dbResults = << >>
    /\ dbPromise = "pending"

\* Settings is not mounted
NoSettings ==
    /\ autoInvite = FALSE
    /\ threshold = DefaultThreshold
    /\ stLoading = TRUE
    /\ saving = FALSE
    /\ saved = FALSE
    /\ savedTimers = 0
    /\ stInflight = {}
    /\ typed = {}

\* none of the form, Dashboard and Settings controllers is mounted
NoPages == NoForm /\ NoDashboard /\ NoSettings

\* no list controller is mounted
NoList ==
    /\ lcPage = "none"
    /\ lcItems = "empty"
    /\ lcLoading = TRUE
    /\ searchTerm = ""
    /\ searchInput = ""
    /\ search = ""
    /\ lcStatusFilter = ""
    /\ selectedJob = ""
    /\ jobType = ""
    /\ submitted = ""
    /\ lcInflight = {}
    /\ lcSecond = "empty"
    /\ lcCalls = {}
    /\ lcDelivered = {}

\* ------------------------------------------------------------------------
\* JobDetail: initial state, the mount effect has issued its three requests
\* ------------------------------------------------------------------------
InitJobDetail ==
    /\ job = NULL
    /\ pipeline = NULL
    /\ applications = << >>
    /\ jdLoading = TRUE
    /\ statusFilter = NULL
    /\ funnelStage = NULL
    /\ selected = {}
    /\ bulkLoading = FALSE
    /\ jobRes = NULL
    /\ jdInflight = {GetByIdRequest, PipelineRequest("init"), ListRequest(NULL, "init")}
    /\ noteApp = NoId
    /\ jdDelivered = {}
    /\ NoList
    /\ NoPages

Init == InitSession /\ InitJobDetail

\* a signed-in session, as the protected JobDetail route requires
SignedIn ==
    /\ user = "u1"
    /\ loading = FALSE
    /\ error = NULL
    /\ mounted = TRUE
    /\ returned = NoReturn
    /\ localStorage = [token |-> "t1", user |-> Stringify("u1")]
    /\ location = "/jobs/1"
    /\ navPending = FALSE
    /\ navCount = 0
    /\ inflight = {}
    /\ settling = {}

sessionVars == <<authVars, browserVars, netVars>>

\* JobDetail mounted under a signed-in session
InitSignedIn == SignedIn /\ InitJobDetail

\* ------------------------------------------------------------------------
\* JobDetail: filters
\* ------------------------------------------------------------------------
\* handleFunnelStageClick(stage): stage is null when the active segment is re-clicked
handleFunnelStageClick(stage) ==
    LET pill == IF stage # NULL THEN FUNNEL_TO_PILL[stage] ELSE NULL
        req == ListRequest(pill, "filter")
    IN  /\ funnelStage' = stage
        /\ statusFilter' = pill
        /\ jdInflight' = jdInflight \cup {req}
        /\ selected' = {}
        /\ jdDelivered' = {}
        /\ UNCHANGED <<job, pipeline, applications, jdLoading, bulkLoading, jobRes>>

\* PipelineFunnel: a click on segment item passes null when item is the active stage
FunnelClick(item) ==
    /\ JdInteractive /\ pipeline # NULL
    /\ JdCanIssue(ListRequest(IF item = funnelStage THEN NULL ELSE FUNNEL_TO_PILL[item],
                              "filter"))
    /\ handleFunnelStageClick(IF item = funnelStage THEN NULL ELSE item)
    /\ UNCHANGED <<sessionVars, lcVars, pgVars, noteApp>>

\* handlePillSelect without its setSelected(new Set())
handlePillSelectKeepsSelection(value) ==
    /\ JdInteractive
    /\ JdCanIssue(ListRequest(value, "filter"))
    /\ statusFilter' = value
    /\ funnelStage' = NULL
    /\ jdInflight' = jdInflight \cup {ListRequest(value, "filter")}
    /\ jdDelivered' = {}
    /\ UNCHANGED <<job, pipeline, applications, jdLoading, bulkLoading, jobRes, selected>>
    /\ UNCHANGED <<sessionVars, lcVars, pgVars, noteApp>>

\* handlePillSelect without its setFunnelStage(null)
handlePillSelectKeepsFunnel(value) ==
    /\ JdInteractive
    /\ JdCanIssue(ListRequest(value, "filter"))
    /\ statusFilter' = value
    /\ jdInflight' = jdInflight \cup {ListRequest(value, "filter")}
    /\ selected' = {}
    /\ jdDelivered' = {}
    /\ UNCHANGED <<job, pipeline, applications, jdLoading, bulkLoading, jobRes, funnelStage>>
    /\ UNCHANGED <<sessionVars, lcVars, pgVars, noteApp>>

\* handlePillSelect(value)
handlePillSelect(value) ==
    /\ JdInteractive
    /\ JdCanIssue(ListRequest(value, "filter"))
    /\ statusFilter' = value
    /\ funnelStage' = NULL
    /\ jdInflight' = jdInflight \cup {ListRequest(value, "filter")}
    /\ selected' = {}
    /\ jdDelivered' = {}
    /\ UNCHANGED <<job, pipeline, applications, jdLoading, bulkLoading, jobRes>>
    /\ UNCHANGED <<sessionVars, lcVars, pgVars, noteApp>>

\* ------------------------------------------------------------------------
\* JobDetail: selection
\* ------------------------------------------------------------------------
\* toggleSelect(id), from the checkbox of a rendered row
toggleSelect(id) ==
    /\ JdInteractive
    /\ id \in DOMAIN applications
    /\ selected' = IF id \in selected THEN selected \ {id} ELSE selected \cup {id}
    /\ jdDelivered' = {}
    /\ UNCHANGED <<job, pipeline, applications, jdLoading, statusFilter, funnelStage,
                   bulkLoading, jobRes, jdInflight>>
    /\ UNCHANGED <<sessionVars, lcVars, pgVars, noteApp>>

\* toggleAll(), from the header checkbox of a non-empty table
toggleAll ==
    /\ JdInteractive
    /\ DOMAIN applications # {}
    /\ selected' = IF Cardinality(selected) = Cardinality(DOMAIN applications)
                   THEN {}
                   ELSE DOMAIN applications
    /\ jdDelivered' = {}
    /\ UNCHANGED <<job, pipeline, applications, jdLoading, statusFilter, funnelStage,
                   bulkLoading, jobRes, jdInflight>>
    /\ UNCHANGED <<sessionVars, lcVars, pgVars, noteApp>>

\* allSelected: the header checkbox is rendered checked
allSelected ==
    Cardinality(DOMAIN applications) > 0
    /\ Cardinality(selected) = Cardinality(DOMAIN applications)

\* the X button of the bulk action bar: setSelected(new Set())
ClearSelection ==
    /\ JdInteractive
    /\ selected # {}
    /\ selected' = {}
    /\ jdDelivered' = {}
    /\ UNCHANGED <<job, pipeline, applications, jdLoading, statusFilter, funnelStage,
                   bulkLoading, jobRes, jdInflight>>
    /\ UNCHANGED <<sessionVars, lcVars, pgVars, noteApp>>

\* ------------------------------------------------------------------------
\* JobDetail: row actions and bulk invite, up to their await
\* ------------------------------------------------------------------------
\* the endpoint handleAction(type, appId) calls
ActionOp(type) ==
    CASE type = "invite" -> "screenings.create"
      [] type = "approve" -> "applications.shortlist"
      [] type = "reject" -> "applications.reject"

\* CandidateRow: the button of this action is disabled on this row
ActionDisabled(type, app) ==
    CASE type = "invite" -> hasActiveScreening(app)
      [] type = "approve" -> disableApprove(app)
      [] type = "reject" -> disableReject(app)

\* handleAction(type, appId), from an enabled button of a rendered row
handleAction(type, appId) ==
    LET req == JdRequest(ActionOp(type), NULL, appId, {}, "action")
    IN  /\ JdInteractive
        /\ appId \in DOMAIN applications
        /\ ~ActionDisabled(type, applications[appId])
        /\ JdCanIssue(req)
        /\ jdInflight' = jdInflight \cup {req}
        /\ jdDelivered' = {}
        /\ UNCHANGED <<job, pipeline, applications, jdLoading, statusFilter, funnelStage,
                       selected, bulkLoading, jobRes>>
        /\ UNCHANGED <<sessionVars, lcVars, pgVars, noteApp>>

\* handleBulkInvite(), from the enabled button of the bulk action bar; the
\* statusFilter of the render it was created in travels with it to refreshAll
handleBulkInvite ==
    LET req == JdRequest("applications.bulkInviteScreening", statusFilter, NoId, selected,
                         "bulk")
    IN  /\ JdInteractive
        /\ selected # {} /\ ~bulkLoading
        /\ JdCanIssue(req)
        /\ bulkLoading' = TRUE
        /\ jdInflight' = jdInflight \cup {req}
        /\ jdDelivered' = {}
        /\ UNCHANGED <<job, pipeline, applications, jdLoading, statusFilter, funnelStage,
                       selected, jobRes>>
        /\ UNCHANGED <<sessionVars, lcVars, pgVars, noteApp>>

\* ------------------------------------------------------------------------
\* JobDetail: the backend's answers and the continuations they resume
\* ------------------------------------------------------------------------
\* no application record
NoRecord == [id |-> NoId, status |-> NULL, screenings |-> {}, withScreenings |-> FALSE]

\* an answer: ok or not, and the payload by kind (a list, a record, a value)
Answer(ok, list, rec, text) == [ok |-> ok, list |-> list, rec |-> rec, text |-> text]

\* a failed request: nothing but the failure
Failure == Answer(FALSE, << >>, NoRecord, NULL)

\* the answers the backend can give to a JobDetail request
JdAnswers(req, rows) ==
    {Failure} \cup
    CASE req.op = "jobs.getById" ->
           { Answer(TRUE, << >>, NoRecord, j) : j \in JobStatuses }
      [] req.op = "jobs.getPipeline" ->
           { Answer(TRUE, << >>, NoRecord, p) : p \in Pipelines }
      [] req.op = "applications.getAll" ->
           { Answer(TRUE, l, NoRecord, NULL) : l \in ServerLists(req.status, rows) }
      [] req.op \in {"applications.shortlist", "applications.reject", "applications.update"} ->
           { Answer(TRUE, << >>, r, NULL) : r \in ServerRecords(req.id) }
      [] req.op = "screenings.create" ->
           \* the new Screening record: its status is scheduled
           { Answer(TRUE, << >>, NoRecord, "scheduled") }
      [] req.op = "applications.bulkInviteScreening" ->
           { Answer(TRUE, << >>, NoRecord, NULL) }
      [] req.op \in JobOps ->
           \* the job record as the backend now holds it
           { Answer(TRUE, << >>, NoRecord, j) : j \in JobRecordStatuses }

\* updateRow(updated): { ...a, ...updated } on the row whose id is updated.id
updateRow(prev, updated) ==
    [a \in DOMAIN prev |->
        IF a = updated.id
        THEN Row(updated.status,
                 IF updated.withScreenings THEN updated.screenings ELSE prev[a].screenings)
        ELSE prev[a]]

\* handleAction, invite: the object passed to updateRow, { id: appId, status: 'screening' }
InviteRowPatch(appId) ==
    [id |-> appId, status |-> "screening", screenings |-> {}, withScreenings |-> FALSE]

\* the requests a continuation issues are not already in flight: the model
\* keeps one request of a kind per issuer
JdRoom(req, new) == new \cap (jdInflight \ {req}) = {}

\* requests of this issuer still pending once req is answered
PendingOf(owner, req) == { r \in jdInflight \ {req} : r.owner = owner }

\* init: Promise.all has settled once the job answer is in and nothing of init is pending
InitSettles(req, jobAnswer) == jobAnswer # NULL /\ PendingOf("init", req) = {}

\* the effect of an answer to loadPipeline / loadApplications on the issuer's flags
OwnerSettles(req) ==
    /\ IF req.owner = "init" /\ InitSettles(req, jobRes)
       THEN /\ job' = jobRes
            /\ jdLoading' = FALSE
       ELSE UNCHANGED <<job, jdLoading>>
    /\ IF req.owner = "bulk" /\ PendingOf("bulk", req) = {}
       THEN bulkLoading' = FALSE
       ELSE UNCHANGED bulkLoading

\* init after jobsAPI.getById settles
ContinueGetById(req, ans) ==
    /\ IF ~ans.ok
       THEN /\ jdLoading' = FALSE
            /\ UNCHANGED <<job, jobRes>>
       ELSE /\ jobRes' = ans.text
            /\ IF InitSettles(req, ans.text)
               THEN job' = ans.text /\ jdLoading' = FALSE
               ELSE UNCHANGED <<job, jdLoading>>
    /\ jdInflight' = jdInflight \ {req}
    /\ UNCHANGED <<pipeline, applications, statusFilter, funnelStage, selected, bulkLoading>>

\* loadPipeline after its await
ContinueLoadPipeline(req, ans) ==
    /\ pipeline' = IF ans.ok THEN ans.text ELSE pipeline
    /\ OwnerSettles(req)
    /\ jdInflight' = jdInflight \ {req}
    /\ UNCHANGED <<applications, statusFilter, funnelStage, selected, jobRes>>

\* loadApplications after its await
ContinueLoadApplications(req, ans) ==
    /\ applications' = IF ans.ok THEN ans.list ELSE applications
    /\ OwnerSettles(req)
    /\ jdInflight' = jdInflight \ {req}
    /\ UNCHANGED <<pipeline, statusFilter, funnelStage, selected, jobRes>>

\* handleAction after its await: patch the row, then loadPipeline(); nothing on failure
ContinueAction(req, ans) ==
    /\ IF ans.ok
       THEN /\ JdRoom(req, {PipelineRequest("action")})
            /\ applications' =
                 IF req.op = "screenings.create"
                 THEN updateRow(applications, InviteRowPatch(req.id))
                 ELSE updateRow(applications, ans.rec)
            /\ jdInflight' = (jdInflight \ {req}) \cup {PipelineRequest("action")}
       ELSE /\ jdInflight' = jdInflight \ {req}
            /\ UNCHANGED applications
    /\ UNCHANGED <<job, pipeline, jdLoading, statusFilter, funnelStage, selected,
                   bulkLoading, jobRes>>

\* refreshAll without its loadPipeline()
refreshAllListOnly(closureFilter) == {ListRequest(closureFilter, "bulk")}

\* refreshAll(): loadPipeline() and loadApplications(statusFilter), with the
\* statusFilter of the closure that handleBulkInvite ran in
refreshAll(closureFilter) ==
    {PipelineRequest("bulk"), ListRequest(closureFilter, "bulk")}

\* handleBulkInvite with setBulkLoading(false) as the last statement of the
\* try block instead of a finally block
ContinueBulkInviteNoFinally(req, ans) ==
    /\ IF ans.ok
       THEN /\ JdRoom(req, refreshAll(req.status))
            /\ selected' = {}
            /\ jdInflight' = (jdInflight \ {req}) \cup refreshAll(req.status)
       ELSE /\ jdInflight' = jdInflight \ {req}
            /\ UNCHANGED selected
    /\ UNCHANGED <<job, pipeline, applications, jdLoading, statusFilter, funnelStage,
                   jobRes, bulkLoading>>

\* handleBulkInvite after its await: clear the selection and refreshAll(); on
\* failure only the finally block runs
ContinueBulkInvite(req, ans) ==
    /\ IF ans.ok
       THEN /\ JdRoom(req, refreshAll(req.status))
            /\ selected' = {}
            /\ jdInflight' = (jdInflight \ {req}) \cup refreshAll(req.status)
            /\ UNCHANGED bulkLoading
       ELSE /\ bulkLoading' = FALSE
            /\ jdInflight' = jdInflight \ {req}
            /\ UNCHANGED selected
    /\ UNCHANGED <<job, pipeline, applications, jdLoading, statusFilter, funnelStage, jobRes>>

\* ------------------------------------------------------------------------
\* JobDetail: the note modal
\* ------------------------------------------------------------------------
\* the note button of a rendered row: setNoteApp(app)
OpenNote(id) ==
    /\ JdInteractive
    /\ id \in DOMAIN applications
    /\ noteApp' = id
    /\ jdDelivered' = {}
    /\ UNCHANGED <<job, pipeline, applications, jdLoading, statusFilter, funnelStage,
                   selected, bulkLoading, jobRes, jdInflight>>
    /\ UNCHANGED <<sessionVars, lcVars, pgVars>>

\* the modal's X and Cancel buttons: setNoteApp(null)
CloseNote ==
    /\ JdInteractive
    /\ noteApp # NoId
    /\ noteApp' = NoId
    /\ jdDelivered' = {}
    /\ UNCHANGED <<job, pipeline, applications, jdLoading, statusFilter, funnelStage,
                   selected, bulkLoading, jobRes, jdInflight>>
    /\ UNCHANGED <<sessionVars, lcVars, pgVars>>

\* the request handleSaveNote(appId, notes) issues
SaveNoteRequest(appId) == JdRequest("applications.update", NULL, appId, {}, "note")

\* NoteModal.handleSave -> handleSaveNote(application.id, notes), up to its
\* await; the Save button is disabled while this modal's save is pending
handleSaveNote ==
    /\ JdInteractive
    /\ noteApp # NoId
    /\ JdCanIssue(SaveNoteRequest(noteApp))
    /\ jdInflight' = jdInflight \cup {SaveNoteRequest(noteApp)}
    /\ jdDelivered' = {}
    /\ UNCHANGED <<job, pipeline, applications, jdLoading, statusFilter, funnelStage,
                   selected, bulkLoading, jobRes, noteApp>>
    /\ UNCHANGED <<sessionVars, lcVars, pgVars>>

\* handleSaveNote after its await, with a full reload in place of the patch
ContinueSaveNoteDropsRows(req, ans) ==
    /\ applications' = IF ans.ok THEN [a \in {req.id} \cap DOMAIN applications |-> applications[a]]
                                 ELSE applications
    /\ jdInflight' = jdInflight \ {req}
    /\ UNCHANGED <<job, pipeline, jdLoading, statusFilter, funnelStage, selected,
                   bulkLoading, jobRes>>

\* handleSaveNote after its await: updateRow(res.data); it has no catch
ContinueSaveNote(req, ans) ==
    /\ applications' = IF ans.ok THEN updateRow(applications, ans.rec) ELSE applications
    /\ jdInflight' = jdInflight \ {req}
    /\ UNCHANGED <<job, pipeline, jdLoading, statusFilter, funnelStage, selected,
                   bulkLoading, jobRes>>

\* ------------------------------------------------------------------------
\* JobDetail: job header actions
\* ------------------------------------------------------------------------
\* the header buttons rendered for a job of this status, with close on every status
HeaderActionsCloseAlways(status) ==
    {"close"} \cup { a \in {"publish"} : status = "draft" }
              \cup { a \in {"pause"} : status = "active" }
              \cup { a \in {"reopen"} : status = "paused" }

\* the header buttons rendered for a job of this status
HeaderActions(status) ==
    { a \in {"publish"} : status = "draft" }
    \cup { a \in {"pause", "close"} : status = "active" }
    \cup { a \in {"reopen", "close"} : status = "paused" }

\* the request handleJobAction(action) issues; pause and reopen are updates
\* whose body names the status
JobActionRequest(action) ==
    CASE action = "publish" -> JdRequest("jobs.publish", NULL, NoId, {}, "header")
      [] action = "close" -> JdRequest("jobs.close", NULL, NoId, {}, "header")
      [] action = "pause" -> JdRequest("jobs.update", "paused", NoId, {}, "header")
      [] action = "reopen" -> JdRequest("jobs.update", "active", NoId, {}, "header")

\* handleJobAction(action), from a rendered header button, up to its await
handleJobAction(action) ==
    /\ JdInteractive
    /\ action \in HeaderActions(job)
    /\ JdCanIssue(JobActionRequest(action))
    /\ jdInflight' = jdInflight \cup {JobActionRequest(action)}
    /\ jdDelivered' = {}
    /\ UNCHANGED <<job, pipeline, applications, jdLoading, statusFilter, funnelStage,
                   selected, bulkLoading, jobRes>>
    /\ UNCHANGED <<sessionVars, lcVars, pgVars, noteApp>>

\* the status a client would infer for the request, whatever the answer says
InferredStatus(req) ==
    CASE req.op = "jobs.publish" -> "active"
      [] req.op = "jobs.close" -> "closed"
      [] OTHER -> req.status

\* handleJobAction after its await, with the status inferred from the action
ContinueJobActionInferred(req, ans) ==
    /\ job' = IF ans.ok THEN InferredStatus(req) ELSE job
    /\ jdInflight' = jdInflight \ {req}
    /\ UNCHANGED <<pipeline, applications, jdLoading, statusFilter, funnelStage, selected,
                   bulkLoading, jobRes>>

\* handleJobAction after its await: setJob(res.data); nothing on failure
ContinueJobAction(req, ans) ==
    /\ job' = IF ans.ok THEN ans.text ELSE job
    /\ jdInflight' = jdInflight \ {req}
    /\ UNCHANGED <<pipeline, applications, jdLoading, statusFilter, funnelStage, selected,
                   bulkLoading, jobRes>>

\* an answer arrives and the awaiting handler resumes
JdRespond(req, ans) ==
    /\ req \in jdInflight
    /\ CASE req.op = "jobs.getById" -> ContinueGetById(req, ans)
         [] req.op = "jobs.getPipeline" -> ContinueLoadPipeline(req, ans)
         [] req.op = "applications.getAll" -> ContinueLoadApplications(req, ans)
         [] req.op = "applications.bulkInviteScreening" -> ContinueBulkInvite(req, ans)
         [] req.op \in JobOps -> ContinueJobAction(req, ans)
         [] req.op = "applications.update" -> ContinueSaveNote(req, ans)
         [] OTHER -> ContinueAction(req, ans)
    /\ jdDelivered' = {[req |-> req, ok |-> ans.ok, rec |-> ans.rec, text |-> ans.text]}
    \* NoteModal.handleSave: onClose() once onSave has resolved
    /\ noteApp' = IF req.op = "applications.update" /\ ans.ok THEN NoId ELSE noteApp
    /\ UNCHANGED <<sessionVars, lcVars, pgVars>>

\* JobDetail with its filters, its selection and the bulk invite
NextJobDetail ==
    \/ \E item \in FunnelStages : FunnelClick(item)
    \/ \E value \in PillInputs : handlePillSelect(value)
    \/ \E id \in AppIds : toggleSelect(id)
    \/ toggleAll
    \/ ClearSelection
    \/ handleBulkInvite
    \/ \E req \in jdInflight : \E ans \in JdAnswers(req, PlainRows) : JdRespond(req, ans)

SpecJobDetail == InitSignedIn /\ [][NextJobDetail]_vars

\* JobDetail with its row actions, the selection and a reload of the list
NextJobRows ==
    \/ \E type \in {"invite", "approve", "reject"} : \E id \in AppIds : handleAction(type, id)
    \/ \E id \in AppIds : toggleSelect(id)
    \/ \E value \in ReloadPill : handlePillSelect(value)
    \/ \E req \in jdInflight : \E ans \in JdAnswers(req, RichRows) : JdRespond(req, ans)

SpecJobRows == InitSignedIn /\ [][NextJobRows]_vars

\* JobDetail once init has settled with a job of any status
InitJobLoaded ==
    /\ SignedIn
    /\ job \in JobRecordStatuses
    /\ jobRes = job
    /\ pipeline \in Pipelines
    /\ applications = << >>
    /\ jdLoading = FALSE
    /\ statusFilter = NULL
    /\ funnelStage = NULL
    /\ selected = {}
    /\ bulkLoading = FALSE
    /\ jdInflight = {}
    /\ noteApp = NoId
    /\ jdDelivered = {}
    /\ NoList
    /\ NoPages

\* JobDetail with its header actions
NextJobHeader ==
    \/ \E action \in JobActions : handleJobAction(action)
    \/ \E req \in jdInflight : \E ans \in JdAnswers(req, PlainRows) : JdRespond(req, ans)
SpecJobHeader == InitJobLoaded /\ [][NextJobHeader]_vars

\* every Application.status and every Screening.status of the backend
ApplicationStatuses ==
    {"pending", "screening", "shortlisted", "interview", "offered", "hired", "rejected"}
ScreeningStatuses == {"scheduled", "in_progress", "completed", "cancelled"}

\* JobDetail once init has settled with one application of any status and
\* any screenings
InitRowLoaded ==
    /\ SignedIn
    /\ job \in JobStatuses
    /\ jobRes = job
    /\ pipeline \in Pipelines
    /\ applications \in
         { [id \in {5} |-> Row(s, scr)] :
             s \in ApplicationStatuses, scr \in SUBSET ScreeningStatuses }
    /\ jdLoading = FALSE
    /\ statusFilter = NULL
    /\ funnelStage = NULL
    /\ selected = {}
    /\ bulkLoading = FALSE
    /\ jdInflight = {}
    /\ noteApp = NoId
    /\ jdDelivered = {}
    /\ NoList
    /\ NoPages

\* JobDetail with the action buttons of its candidate rows
NextRowButtons ==
    \/ \E type \in {"invite", "approve", "reject"} : \E id \in AppIds : handleAction(type, id)
    \/ \E req \in jdInflight : \E ans \in JdAnswers(req, PlainRows) : JdRespond(req, ans)
SpecRowButtons == InitRowLoaded /\ [][NextRowButtons]_vars

\* the rows JobDetail has loaded where the single-row operations are followed
OpsRows == { Row("pending", {}), Row("shortlisted", {"completed"}) }
\* the pill clicked there
OpsPill == {"pending"}
\* the application operated on there; the other one is the row to be left alone
OperatedIds == {5}

\* JobDetail once init has settled with both applications listed
InitRowsLoaded ==
    /\ SignedIn
    /\ job \in JobStatuses
    /\ jobRes = job
    /\ pipeline \in Pipelines
    /\ applications \in [AppIds -> OpsRows]
    /\ jdLoading = FALSE
    /\ statusFilter = NULL
    /\ funnelStage = NULL
    /\ selected = {}
    /\ bulkLoading = FALSE
    /\ noteApp = NoId
    /\ jdInflight = {}
    /\ jdDelivered = {}
    /\ NoList
    /\ NoPages

\* JobDetail with its single-row operations: the three row actions and the note
NextRowOps ==
    \/ \E type \in {"invite", "approve", "reject"} :
          \E id \in OperatedIds : handleAction(type, id)
    \/ \E id \in OperatedIds : OpenNote(id)
    \/ CloseNote
    \/ handleSaveNote
    \/ \E id \in AppIds : toggleSelect(id)
    \/ \E value \in OpsPill : handlePillSelect(value)
    \/ \E req \in jdInflight : \E ans \in JdAnswers(req, PlainRows) : JdRespond(req, ans)
SpecRowOps == InitRowsLoaded /\ [][NextRowOps]_vars

\* the rows the backend lists where the two filter controls are compared
FilterRows == { Row("pending", {}), Row("rejected", {}) }

\* JobDetail with its two filter controls: every funnel segment, every pill
NextFilters ==
    \/ \E item \in FunnelStages : FunnelClick(item)
    \/ \E value \in FILTER_PILLS : handlePillSelect(value)
    \/ \E req \in jdInflight : \E ans \in JdAnswers(req, FilterRows) : JdRespond(req, ans)
SpecFilters == InitSignedIn /\ [][NextFilters]_vars

\* ------------------------------------------------------------------------
\* Resource list controllers: Jobs, Applications, Screenings, BrowseJobs,
\* Candidates. One of them is mounted; each handler is the page's own.
\* ------------------------------------------------------------------------
ListPages == {"Jobs", "Applications", "Screenings", "BrowseJobs", "Candidates"}

\* the route of a list controller
PageRoute(page) ==
    CASE page = "Jobs" -> "/jobs"
      [] page = "Applications" -> "/applications"
      [] page = "Screenings" -> "/screenings"
      [] page = "BrowseJobs" -> "/browse-jobs"
      [] page = "Candidates" -> "/candidates"

\* the texts typed into a search box
Texts == {"", "dev"}
\* the options of the page's status select
StatusOptions(page) ==
    CASE page = "Jobs" -> {"", "draft", "active"}
      [] page = "Applications" -> {"", "pending"}
      [] page = "Screenings" -> {"", "scheduled"}
      [] OTHER -> {}
\* the pages whose loader fetches a second list together with its own
TwoRequests(page) == page \in {"Applications", "Screenings"}
\* the second list's endpoint and its fixed status parameter: the active jobs
\* of Applications, the shortlisted applications of Screenings
SecondOp(page) ==
    CASE page = "Applications" -> "jobs.getAll"
      [] page = "Screenings" -> "applications.getAll"
      [] OTHER -> "none"
SecondStatus(page) ==
    CASE page = "Applications" -> "active"
      [] page = "Screenings" -> "shortlisted"
      [] OTHER -> NULL
\* the second lists the backend answers with: no entry, or the entry of id 1
SecondPayloads == {"empty", "S1"}
\* Applications: the options of the job select, 'All Jobs' and one per job of jobs
JobOptions == {""} \cup (IF lcSecond = "S1" THEN {"1"} ELSE {})
\* BrowseJobs: JOB_TYPES
JobTypeOptions == {"", "full_time"}
\* the lists the backend answers with
Payloads == {"L1", "L2"}
\* the rows acted on
RowIds == {5}

\* the row actions of a page and their endpoints
PageActions(page) ==
    CASE page = "Jobs" -> {"jobs.publish", "jobs.close"}
      [] page = "Applications" -> {"applications.shortlist", "applications.reject"}
      [] page = "Screenings" -> {"screenings.start", "screenings.complete", "screenings.cancel"}
      [] OTHER -> {}

\* the list endpoints
ListOps == {"jobs.getAll", "applications.getAll", "screenings.getAll", "public.getJobs",
            "candidates.getAll"}

\* a query parameter is set only for a truthy value
Param(v) == IF Truthy(v) THEN v ELSE NULL

\* a request of a list controller: endpoint, query parameters, row id, issuer
LcRequest(op, status, job_id, job_type, srch, id, owner) ==
    [op |-> op, status |-> status, job_id |-> job_id, job_type |-> job_type,
     search |-> srch, id |-> id, owner |-> owner]

\* Jobs.loadJobs without its status parameter
loadJobsNoStatus(st, term, owner) ==
    LcRequest("jobs.getAll", NULL, NULL, NULL, Param(term), NoId, owner)

\* Jobs.loadJobs: params.status, params.search
loadJobs(st, term, owner) ==
    LcRequest("jobs.getAll", Param(st), NULL, NULL, Param(term), NoId, owner)

\* Applications.loadData: params.job_id, params.status (with the list of active jobs)
loadApplicationsData(jb, st, owner) ==
    LcRequest("applications.getAll", Param(st), Param(jb), NULL, NULL, NoId, owner)

\* Screenings.loadData: params.status (with the list of shortlisted applications)
loadScreeningsData(st, owner) ==
    LcRequest("screenings.getAll", Param(st), NULL, NULL, NULL, NoId, owner)

\* BrowseJobs.fetchJobs(s, t): params.search, params.job_type
fetchJobs(s, t, owner) ==
    LcRequest("public.getJobs", NULL, NULL, Param(t), Param(s), NoId, owner)

\* Candidates.loadCandidates: params.search
loadCandidates(term, owner) ==
    LcRequest("candidates.getAll", NULL, NULL, NULL, Param(term), NoId, owner)

\* the list request the page's loader issues from these state values
Load(page, st, jb, term, s, t, owner) ==
    CASE page = "Jobs" -> loadJobs(st, term, owner)
      [] page = "Applications" -> loadApplicationsData(jb, st, owner)
      [] page = "Screenings" -> loadScreeningsData(st, owner)
      [] page = "BrowseJobs" -> fetchJobs(s, t, owner)
      [] page = "Candidates" -> loadCandidates(term, owner)

\* the request for the second list that goes out with a loader call
SecondRequest(page, owner) ==
    LcRequest(SecondOp(page), SecondStatus(page), NULL, NULL, NULL, NoId, owner)

\* a loader call of Applications / Screenings awaiting Promise.all: its list
\* request, and for each of the two requests "pending", "failed" or the list
\* it was answered with
Call(req, list, second) == [req |-> req, list |-> list, second |-> second]
\* the call a loader of this page starts together with its list request
NewCall(req) == IF TwoRequests(lcPage) THEN {Call(req, "pending", "pending")} ELSE {}
\* the call of a list request in flight
CallOf(req) == CHOOSE c \in lcCalls : c.req = req /\ c.list = "pending"
\* Promise.all of a call has rejected: one of the two requests has failed
Rejected(c) == c.list = "failed" \/ c.second = "failed"
\* Promise.all of a call has fulfilled: both requests were answered with a list
Fulfilled(c) == c.list \notin {"pending", "failed"} /\ c.second \notin {"pending", "failed"}
\* both requests of a call have been answered
Answered(c) == c.list # "pending" /\ c.second # "pending"

\* the list requests with an answer outstanding, their own or their second one
LcPending == lcInflight \cup { c.req : c \in lcCalls }
\* a request is not that of a call still open (the model keeps one call of a kind)
LcFree(req) == req \notin LcPending
\* a further request of the controller may be put in flight (the model's bound)
LcCanIssue(req) == Cardinality(LcPending) < MaxInflight /\ LcFree(req)

\* the requests on the wire: the list requests, and the second request of
\* every call of Applications / Screenings whose second answer is outstanding
LcOutstanding ==
    lcInflight \cup { SecondRequest(lcPage, c.req.owner) : c \in { k \in lcCalls : k.second = "pending" } }

\* JobDetail is not mounted
NoJobDetail ==
    /\ job = NULL
    /\ pipeline = NULL
    /\ applications = << >>
    /\ jdLoading = TRUE
    /\ statusFilter = NULL
    /\ funnelStage = NULL
    /\ selected = {}
    /\ bulkLoading = FALSE
    /\ jobRes = NULL
    /\ noteApp = NoId
    /\ jdInflight = {}
    /\ jdDelivered = {}

\* a list controller has mounted: its state as declared, its mount effect has
\* issued the first load
InitLists ==
    /\ lcPage \in ListPages
    /\ user = "u1"
    /\ loading = FALSE
    /\ error = NULL
    /\ mounted = TRUE
    /\ returned = NoReturn
    /\ localStorage = [token |-> "t1", user |-> Stringify("u1")]
    /\ location = PageRoute(lcPage)
    /\ navPending = FALSE
    /\ navCount = 0
    /\ inflight = {}
    /\ settling = {}
    /\ NoJobDetail
    /\ lcItems = "empty"
    /\ lcLoading = TRUE
    /\ searchTerm = ""
    /\ searchInput = ""
    /\ search = ""
    /\ lcStatusFilter = ""
    /\ selectedJob = ""
    /\ jobType = ""
    /\ submitted = ""
    /\ lcInflight = {Load(lcPage, "", "", "", "", "", "mount")}
    /\ lcSecond = "empty"
    /\ lcCalls = IF TwoRequests(lcPage)
                 THEN {Call(Load(lcPage, "", "", "", "", "", "mount"), "pending", "pending")}
                 ELSE {}
    /\ lcDelivered = {}
    /\ NoPages

\* what a handler of a list controller leaves alone
lcFrame == <<sessionVars, jdVars, lcPage, fmState, dbVars, stVars>>
\* a step of a list controller: the rest is left alone, and the step is not
\* the delivery of an answer to a form
lcFrameKept == fmDelivered' = {} /\ UNCHANGED lcFrame

\* Jobs, Candidates: the search box's onChange, setSearchTerm(text)
setSearchTerm(text) ==
    /\ lcPage \in {"Jobs", "Candidates"}
    /\ text # searchTerm
    /\ searchTerm' = text
    /\ lcDelivered' = {}
    /\ UNCHANGED <<lcItems, lcLoading, searchInput, search, lcStatusFilter, selectedJob,
                   jobType, submitted, lcInflight, lcSecond, lcCalls>>
    /\ lcFrameKept

\* BrowseJobs: the search box's onChange, setSearchInput(text)
setSearchInput(text) ==
    /\ lcPage = "BrowseJobs"
    /\ text # searchInput
    /\ searchInput' = text
    /\ lcDelivered' = {}
    /\ UNCHANGED <<lcItems, lcLoading, searchTerm, search, lcStatusFilter, selectedJob,
                   jobType, submitted, lcInflight, lcSecond, lcCalls>>
    /\ lcFrameKept

\* Jobs.handleSearch, Candidates.handleSearch: the form's submit calls the loader
handleSearch ==
    LET req == Load(lcPage, lcStatusFilter, selectedJob, searchTerm, search, jobType, "search")
    IN  /\ lcPage \in {"Jobs", "Candidates"}
        /\ LcCanIssue(req)
        /\ lcInflight' = lcInflight \cup {req}
        /\ lcLoading' = TRUE
        /\ submitted' = searchTerm
        /\ lcDelivered' = {}
        /\ UNCHANGED <<lcItems, searchTerm, searchInput, search, lcStatusFilter, selectedJob,
                       jobType, lcSecond, lcCalls>>
        /\ lcFrameKept

\* BrowseJobs.handleSearch: setSearch(searchInput); the effect on [search, jobType]
\* fetches when search has changed
handleSearchBrowse ==
    LET req == fetchJobs(searchInput, jobType, "search")
    IN  /\ lcPage = "BrowseJobs"
        /\ search' = searchInput
        /\ submitted' = searchInput
        /\ IF searchInput # search
           THEN /\ LcCanIssue(req)
                /\ lcInflight' = lcInflight \cup {req}
                /\ lcLoading' = TRUE
           ELSE UNCHANGED <<lcInflight, lcLoading>>
        /\ lcDelivered' = {}
        /\ UNCHANGED <<lcItems, searchTerm, searchInput, lcStatusFilter, selectedJob, jobType,
                       lcSecond, lcCalls>>
        /\ lcFrameKept

\* Jobs, Applications, Screenings: the status select's onChange,
\* setStatusFilter(value); the effect on the filters calls the loader of the new render
setStatusFilter(value) ==
    LET req == Load(lcPage, value, selectedJob, searchTerm, search, jobType, "filter")
    IN  /\ lcPage \in {"Jobs", "Applications", "Screenings"}
        /\ value \in StatusOptions(lcPage)
        /\ value # lcStatusFilter
        /\ LcCanIssue(req)
        /\ lcStatusFilter' = value
        /\ lcInflight' = lcInflight \cup {req}
        /\ lcCalls' = lcCalls \cup NewCall(req)
        /\ lcLoading' = TRUE
        /\ lcDelivered' = {}
        /\ UNCHANGED <<lcItems, searchTerm, searchInput, search, selectedJob, jobType,
                       submitted, lcSecond>>
        /\ lcFrameKept

\* Applications: the job select's onChange, setSelectedJob(value), from one
\* of the options rendered, and the effect
setSelectedJob(value) ==
    LET req == Load(lcPage, lcStatusFilter, value, searchTerm, search, jobType, "filter")
    IN  /\ lcPage = "Applications"
        /\ value \in JobOptions
        /\ value # selectedJob
        /\ LcCanIssue(req)
        /\ selectedJob' = value
        /\ lcInflight' = lcInflight \cup {req}
        /\ lcCalls' = lcCalls \cup NewCall(req)
        /\ lcLoading' = TRUE
        /\ lcDelivered' = {}
        /\ UNCHANGED <<lcItems, searchTerm, searchInput, search, lcStatusFilter, jobType,
                       submitted, lcSecond>>
        /\ lcFrameKept

\* BrowseJobs: the type select's onChange, setJobType(value), and the effect
setJobType(value) ==
    LET req == fetchJobs(search, value, "filter")
    IN  /\ lcPage = "BrowseJobs"
        /\ value # jobType
        /\ LcCanIssue(req)
        /\ jobType' = value
        /\ lcInflight' = lcInflight \cup {req}
        /\ lcLoading' = TRUE
        /\ lcDelivered' = {}
        /\ UNCHANGED <<lcItems, searchTerm, searchInput, search, lcStatusFilter, selectedJob,
                       submitted, lcSecond, lcCalls>>
        /\ lcFrameKept

\* handlePublish / handleClose, handleShortlist / handleReject, handleStart /
\* handleComplete / handleCancel, from a button of a rendered row, up to the
\* await; the request carries the filters and search text of the render the
\* handler was created in, which its loader call will use
handleListAction(op, id) ==
    LET req == LcRequest(op, lcStatusFilter, selectedJob, NULL, searchTerm, id, "action")
    IN  /\ op \in PageActions(lcPage)
        /\ ~lcLoading /\ lcItems # "empty"
        /\ LcCanIssue(req)
        /\ lcInflight' = lcInflight \cup {req}
        /\ lcDelivered' = {}
        /\ UNCHANGED <<lcItems, lcLoading, searchTerm, searchInput, search, lcStatusFilter,
                       selectedJob, jobType, submitted, lcSecond, lcCalls>>
        /\ lcFrameKept

\* an answer to a request of a list controller: ok or not, and the list it carries
LcAnswer(ok, payload) == [ok |-> ok, payload |-> payload]

\* the answers the backend can give
LcAnswers(req) ==
    {LcAnswer(FALSE, NULL)} \cup
    IF req.op \in ListOps
    THEN { LcAnswer(TRUE, l) : l \in Payloads }
    ELSE { LcAnswer(TRUE, NULL) }

\* the answers the backend can give to the request for the second list
SecondAnswers == {LcAnswer(FALSE, NULL)} \cup { LcAnswer(TRUE, l) : l \in SecondPayloads }

\* the record of the answer just delivered: the list request of the loader
\* call it belongs to (or the row action's request), the answer, which of the
\* requests it answers, what it made of the loader's await ("fulfilled",
\* "rejected", or "none": still waiting, or the await had rejected before),
\* and the list of a fulfilled await
Delivery(req, ans, part, outcome, list) ==
    [req |-> req, ok |-> ans.ok, payload |-> ans.payload, part |-> part,
     outcome |-> outcome, list |-> IF outcome = "fulfilled" THEN list ELSE NULL]

\* a loader that drops the answer to a request the current filters no longer ask for
ContinueLoadCurrentOnly(req, ans) ==
    /\ lcItems' = IF ans.ok /\ req.status = Param(lcStatusFilter) /\ req.job_id = Param(selectedJob)
                      /\ req.job_type = Param(jobType)
                   THEN ans.payload ELSE lcItems
    /\ lcLoading' = FALSE
    /\ lcInflight' = lcInflight \ {req}

\* a loader whose catch empties the list
ContinueLoadClearsOnFailure(req, ans) ==
    /\ lcItems' = IF ans.ok THEN ans.payload ELSE "empty"
    /\ lcLoading' = FALSE
    /\ lcInflight' = lcInflight \ {req}

\* loadJobs, fetchJobs, loadCandidates after the await: the list is set on
\* success; finally setLoading(false)
ContinueLoad(req, ans) ==
    /\ lcItems' = IF ans.ok THEN ans.payload ELSE lcItems
    /\ lcLoading' = FALSE
    /\ lcInflight' = lcInflight \ {req}

\* what an answer contributes to its call
Result(ans) == IF ans.ok THEN ans.payload ELSE "failed"

\* what an answer makes of the await of Promise.all, c the call before it and
\* d the call with it: Promise.all rejects on the first failure and fulfils
\* when both lists are in
Outcome(c, d) ==
    IF Rejected(c) THEN "none"
    ELSE IF Rejected(d) THEN "rejected"
    ELSE IF Fulfilled(d) THEN "fulfilled"
    ELSE "none"

\* Applications.loadData, Screenings.loadData with the two lists set as each
\* answer arrives
ContinueLoadDataEach(c, d) ==
    /\ lcItems' = IF d.list \notin {"pending", "failed"} THEN d.list ELSE lcItems
    /\ lcSecond' = IF d.second \notin {"pending", "failed"} THEN d.second ELSE lcSecond
    /\ lcLoading' = IF Outcome(c, d) = "none" THEN lcLoading ELSE FALSE
    /\ lcCalls' = (lcCalls \ {c}) \cup (IF Answered(d) THEN {} ELSE {d})

\* Applications.loadData, Screenings.loadData after the await of Promise.all:
\* both lists are set when it fulfils; the catch only logs; finally
\* setLoading(false). An answer that leaves Promise.all pending resumes
\* nothing, and so does an answer after Promise.all has rejected.
ContinueLoadData(c, d) ==
    /\ IF Outcome(c, d) = "fulfilled"
       THEN lcItems' = d.list /\ lcSecond' = d.second
       ELSE UNCHANGED <<lcItems, lcSecond>>
    /\ lcLoading' = IF Outcome(c, d) = "none" THEN lcLoading ELSE FALSE
    /\ lcCalls' = (lcCalls \ {c}) \cup (IF Answered(d) THEN {} ELSE {d})

\* the answer to a loader's list request arrives
LoaderListAnswer(req, ans) ==
    IF TwoRequests(lcPage)
    THEN LET c == CallOf(req)
             d == [c EXCEPT !.list = Result(ans)]
         IN  /\ ContinueLoadData(c, d)
             /\ lcInflight' = lcInflight \ {req}
             /\ lcDelivered' = {Delivery(req, ans, "list", Outcome(c, d), d.list)}
    ELSE /\ ContinueLoad(req, ans)
         /\ UNCHANGED <<lcSecond, lcCalls>>
         /\ lcDelivered' = {Delivery(req, ans, "list",
                                     IF ans.ok THEN "fulfilled" ELSE "rejected", ans.payload)}

\* the answer to the request for the second list of call c arrives
LoaderSecondAnswer(c, ans) ==
    LET d == [c EXCEPT !.second = Result(ans)]
    IN  /\ c \in lcCalls
        /\ c.second = "pending"
        /\ ContinueLoadData(c, d)
        /\ UNCHANGED lcInflight
        /\ lcDelivered' = {Delivery(c.req, ans, "second", Outcome(c, d), d.list)}

\* the reload a row action calls after its await
ActionReload(req) ==
    Load(lcPage, req.status, req.job_id, req.search, search, jobType, "action")

\* a row action after its await: the loader is called inside the try block,
\* after the await; the catch only logs
ContinueListAction(req, ans) ==
    IF ans.ok
    THEN /\ LcFree(ActionReload(req))
         /\ lcInflight' = (lcInflight \ {req}) \cup {ActionReload(req)}
         /\ lcCalls' = lcCalls \cup NewCall(ActionReload(req))
         /\ lcLoading' = TRUE
         /\ UNCHANGED lcItems
    ELSE /\ lcInflight' = lcInflight \ {req}
         /\ UNCHANGED <<lcItems, lcLoading, lcCalls>>

\* an answer arrives and the awaiting handler resumes
LcRespond(req, ans) ==
    /\ req \in lcInflight
    /\ IF req.op \in ListOps
       THEN LoaderListAnswer(req, ans)
       ELSE /\ ContinueListAction(req, ans)
            /\ lcDelivered' = {Delivery(req, ans, "action", "none", NULL)}
            /\ UNCHANGED lcSecond
    /\ UNCHANGED <<searchTerm, searchInput, search, lcStatusFilter, selectedJob, jobType,
                   submitted>>
    /\ lcFrameKept

\* the answer to the request for a second list arrives
LcSecondRespond(c, ans) ==
    /\ LoaderSecondAnswer(c, ans)
    /\ UNCHANGED <<searchTerm, searchInput, search, lcStatusFilter, selectedJob, jobType,
                   submitted>>
    /\ lcFrameKept

\* a list controller with its search box, its filters and its row actions
NextLists ==
    \/ \E text \in Texts : setSearchTerm(text)
    \/ \E text \in Texts : setSearchInput(text)
    \/ handleSearch
    \/ handleSearchBrowse
    \/ \E value \in StatusOptions(lcPage) : setStatusFilter(value)
    \/ \E value \in {"", "1"} : setSelectedJob(value)
    \/ \E value \in JobTypeOptions : setJobType(value)
    \/ \E op \in PageActions(lcPage) : \E id \in RowIds : handleListAction(op, id)
    \/ \E req \in lcInflight : \E ans \in LcAnswers(req) : LcRespond(req, ans)
    \/ \E c \in lcCalls : \E ans \in SecondAnswers : LcSecondRespond(c, ans)
SpecLists == InitLists /\ [][NextLists]_vars

\* a list controller with its search box and its filters: the loader calls of
\* the mount effect, the search form and the filter effects, and their answers
NextListLoads ==
    \/ \E text \in Texts : setSearchTerm(text)
    \/ \E text \in Texts : setSearchInput(text)
    \/ handleSearch
    \/ handleSearchBrowse
    \/ \E value \in StatusOptions(lcPage) : setStatusFilter(value)
    \/ \E value \in {"", "1"} : setSelectedJob(value)
    \/ \E value \in JobTypeOptions : setJobType(value)
    \/ \E req \in lcInflight : \E ans \in LcAnswers(req) : LcRespond(req, ans)
    \/ \E c \in lcCalls : \E ans \in SecondAnswers : LcSecondRespond(c, ans)
SpecListLoads == InitLists /\ [][NextListLoads]_vars

\* ------------------------------------------------------------------------
\* Form controllers: the create modals of Jobs, Candidates, Applications and
\* Screenings, and the public ApplyJob form
\* ------------------------------------------------------------------------
\* modal instances the model follows on one page
MaxOpens == 2

Modals == {"CreateJobModal", "CreateCandidateModal", "CreateApplicationModal",
           "CreateScreeningModal"}
Forms == Modals \cup {"ApplyJob"}

\* the list page that renders the modal
FormPage(f) ==
    CASE f = "CreateJobModal" -> "Jobs"
      [] f = "CreateCandidateModal" -> "Candidates"
      [] f = "CreateApplicationModal" -> "Applications"
      [] f = "CreateScreeningModal" -> "Screenings"
      [] OTHER -> "none"

\* the endpoint handleSubmit calls
FormOp(f) ==
    CASE f = "CreateJobModal" -> "jobs.create"
      [] f = "CreateCandidateModal" -> "candidates.create"
      [] f = "CreateApplicationModal" -> "applications.create"
      [] f = "CreateScreeningModal" -> "screenings.create"
      [] f = "ApplyJob" -> "public.apply"

\* the fixed text shown when the answer carries no detail
FormFallback(f) ==
    CASE f = "CreateJobModal" -> "Failed to create job"
      [] f = "CreateCandidateModal" -> "Failed to add candidate"
      [] f = "CreateApplicationModal" -> "Failed to create application"
      [] f = "CreateScreeningModal" -> "Failed to schedule screening"
      [] f = "ApplyJob" -> "Something went wrong. Please try again."

\* error.response.data.detail of a failed submission: absent, empty, or a message
FormDetails == {NULL, "", "Email already registered"}

\* the values of the form's required field: empty, or filled in
FieldValues == {"", "5"}

\* a catch block that shows the fixed text whatever the answer says
FormErrorFallbackOnly(f, detail) == FormFallback(f)

\* the catch block's error text: detail || fallback in the modals, detail ?? fallback
\* in ApplyJob
FormError(f, detail) ==
    IF f = "ApplyJob"
    THEN IF detail # NULL THEN detail ELSE FormFallback(f)
    ELSE IF Truthy(detail) THEN detail ELSE FormFallback(f)

\* the text fetchJob's catch sets
JobNotFound == "Job not found or no longer accepting applications."

\* the form is rendered: the modal is mounted; ApplyJob has its job loaded
\* (neither the spinner nor the error view) and has not been submitted
FormShown ==
    /\ showCreateModal
    /\ ~applySubmitted
    /\ form = "ApplyJob" => (~applyLoading /\ ~(Truthy(fmError) /\ applyJob = NULL))

\* the disabled attribute of the submit button
SubmitDisabled ==
    fmLoading \/ (form = "CreateScreeningModal" /\ ~Truthy(formData))

\* a form controller is mounted: a list page, loaded, with its modal closed,
\* or the ApplyJob page, whose mount effect has called fetchJob
InitForms ==
    /\ form \in Forms
    /\ lcPage = FormPage(form)
    /\ user = "u1"
    /\ loading = FALSE
    /\ error = NULL
    /\ mounted = TRUE
    /\ returned = NoReturn
    /\ localStorage = [token |-> "t1", user |-> Stringify("u1")]
    /\ location = IF form = "ApplyJob" THEN "/browse-jobs/1" ELSE PageRoute(lcPage)
    /\ navPending = FALSE
    /\ navCount = 0
    /\ inflight = {}
    /\ settling = {}
    /\ NoJobDetail
    /\ lcItems = IF form = "ApplyJob" THEN "empty" ELSE "L1"
    /\ lcLoading = (form = "ApplyJob")
    /\ searchTerm = ""
    /\ searchInput = ""
    /\ search = ""
    /\ lcStatusFilter = ""
    /\ selectedJob = ""
    /\ jobType = ""
    /\ submitted = ""
    /\ lcInflight = {}
    /\ lcSecond = IF TwoRequests(lcPage) THEN "S1" ELSE "empty"
    /\ lcCalls = {}
    /\ lcDelivered = {}
    /\ showCreateModal = (form = "ApplyJob")
    /\ fmInst = IF form = "ApplyJob" THEN 1 ELSE 0
    /\ formData = ""
    /\ fmLoading = FALSE
    /\ fmError = ""
    /\ applySubmitted = FALSE
    /\ applyJob = NULL
    /\ applyLoading = TRUE
    /\ fmInflight = {}
    /\ fmDelivered = {}
    /\ NoDashboard
    /\ NoSettings

\* what a form handler leaves alone unless it says otherwise
fmFrame == <<sessionVars, jdVars, dbVars, stVars, form, lcPage, searchTerm, searchInput,
            search, lcStatusFilter, selectedJob, jobType, submitted, lcSecond>>

\* the page's create button: setShowCreateModal(true) mounts a new modal instance
OpenModal ==
    /\ form \in Modals
    /\ ~showCreateModal
    /\ fmInst < MaxOpens
    /\ showCreateModal' = TRUE
    /\ fmInst' = fmInst + 1
    /\ formData' = ""
    /\ fmLoading' = FALSE
    /\ fmError' = ""
    /\ fmDelivered' = {}
    /\ lcDelivered' = {}
    /\ UNCHANGED <<applySubmitted, applyJob, applyLoading, fmInflight, lcItems, lcLoading,
                   lcInflight, lcCalls>>
    /\ UNCHANGED fmFrame

\* the modal's X and Cancel buttons: onClose, setShowCreateModal(false); the
\* instance and its state are gone
CloseModal ==
    /\ form \in Modals
    /\ showCreateModal
    /\ showCreateModal' = FALSE
    /\ formData' = ""
    /\ fmLoading' = FALSE
    /\ fmError' = ""
    /\ fmDelivered' = {}
    /\ lcDelivered' = {}
    /\ UNCHANGED <<fmInst, applySubmitted, applyJob, applyLoading, fmInflight, lcItems,
                   lcLoading, lcInflight, lcCalls>>
    /\ UNCHANGED fmFrame

\* handleChange: the required field is edited
handleChange(value) ==
    /\ FormShown
    /\ value # formData
    /\ formData' = value
    /\ fmDelivered' = {}
    /\ lcDelivered' = {}
    /\ UNCHANGED <<showCreateModal, fmInst, fmLoading, fmError, applySubmitted, applyJob,
                   applyLoading, fmInflight, lcItems, lcLoading, lcInflight, lcCalls>>
    /\ UNCHANGED fmFrame

\* a submission: the endpoint, the instance that sent it, the field sent, and
\* the filters and search text of the render it was sent from, which the
\* onSuccess of that render will reload with
Submission(f, inst, data, st, jb, term) ==
    [op |-> FormOp(f), inst |-> inst, data |-> data, status |-> st, job_id |-> jb,
     search |-> term]

\* handleSubmit up to its await, from the enabled submit button of a form
\* whose required field is filled in
handleSubmit ==
    /\ FormShown
    /\ ~SubmitDisabled
    /\ Truthy(formData)
    /\ Cardinality(fmInflight) < MaxInflight
    /\ fmLoading' = TRUE
    /\ fmError' = ""
    /\ fmInflight' = fmInflight \cup
                       {Submission(form, fmInst, formData, lcStatusFilter, selectedJob, searchTerm)}
    /\ fmDelivered' = {}
    /\ lcDelivered' = {}
    /\ UNCHANGED <<showCreateModal, fmInst, formData, applySubmitted, applyJob, applyLoading,
                   lcItems, lcLoading, lcInflight, lcCalls>>
    /\ UNCHANGED fmFrame

\* an answer to a submission: ok or not, and the detail of a failure
FmAnswers == {[ok |-> TRUE, detail |-> NULL]} \cup
             { [ok |-> FALSE, detail |-> d] : d \in FormDetails }

\* the reload the page's onSuccess calls: the loader of the render the form
\* was submitted from
CreateReload(req) ==
    Load(lcPage, req.status, req.job_id, req.search, search, jobType, "create")

\* the instance that sent req is still mounted
Mounted(req) == showCreateModal /\ req.inst = fmInst

\* a modal's handleSubmit after its await: onSuccess() closes the modal and
\* reloads the list; the catch sets the error; finally setLoading(false). The
\* setters of an instance that is no longer mounted do nothing.
ContinueModalSubmit(req, ans) ==
    IF ans.ok
    THEN /\ LcFree(CreateReload(req))
         /\ showCreateModal' = FALSE
         /\ formData' = ""
         /\ fmLoading' = FALSE
         /\ fmError' = ""
         /\ lcInflight' = lcInflight \cup {CreateReload(req)}
         /\ lcCalls' = lcCalls \cup NewCall(CreateReload(req))
         /\ lcLoading' = TRUE
         /\ UNCHANGED applySubmitted
    ELSE /\ fmError' = IF Mounted(req) THEN FormError(form, ans.detail) ELSE fmError
         /\ fmLoading' = IF Mounted(req) THEN FALSE ELSE fmLoading
         /\ UNCHANGED <<showCreateModal, formData, applySubmitted, lcInflight, lcCalls,
                        lcLoading>>

\* ApplyJob.handleSubmit after its await
ContinueApply(req, ans) ==
    /\ IF ans.ok
       THEN applySubmitted' = TRUE /\ UNCHANGED fmError
       ELSE fmError' = FormError(form, ans.detail) /\ UNCHANGED applySubmitted
    /\ fmLoading' = FALSE
    /\ UNCHANGED <<showCreateModal, formData, lcInflight, lcCalls, lcLoading>>

\* an answer to a submission arrives and handleSubmit resumes
FmRespond(req, ans) ==
    /\ req \in fmInflight
    /\ IF form = "ApplyJob" THEN ContinueApply(req, ans) ELSE ContinueModalSubmit(req, ans)
    /\ fmInflight' = fmInflight \ {req}
    /\ fmDelivered' = {[req |-> req, ok |-> ans.ok, detail |-> ans.detail]}
    /\ lcDelivered' = {}
    /\ UNCHANGED <<fmInst, lcItems, applyJob, applyLoading>>
    /\ UNCHANGED fmFrame

\* ApplyJob.fetchJob after its await: the job is set, or the error; finally
\* setLoading(false)
fetchJob(ok) ==
    /\ form = "ApplyJob"
    /\ applyLoading
    /\ IF ok
       THEN applyJob' = "J1" /\ UNCHANGED fmError
       ELSE fmError' = JobNotFound /\ UNCHANGED applyJob
    /\ applyLoading' = FALSE
    /\ fmDelivered' = {}
    /\ lcDelivered' = {}
    /\ UNCHANGED <<showCreateModal, fmInst, formData, fmLoading, applySubmitted, fmInflight,
                   lcItems, lcLoading, lcInflight, lcCalls>>
    /\ UNCHANGED fmFrame

\* a form controller with its page
NextForms ==
    \/ OpenModal
    \/ CloseModal
    \/ \E value \in FieldValues : handleChange(value)
    \/ handleSubmit
    \/ \E req \in fmInflight : \E ans \in FmAnswers : FmRespond(req, ans)
    \/ \E ok \in BOOLEAN : fetchJob(ok)
    \/ \E text \in Texts : setSearchTerm(text)
    \/ \E req \in lcInflight : \E ans \in LcAnswers(req) : LcRespond(req, ans)
    \/ \E c \in lcCalls : \E ans \in SecondAnswers : LcSecondRespond(c, ans)
SpecForms == InitForms /\ [][NextForms]_vars

\* ------------------------------------------------------------------------
\* Dashboard
\* ------------------------------------------------------------------------
\* the four requests of loadDashboardData
DashboardOps == {"dashboard.getStats", "dashboard.getPipelineOverview",
                 "dashboard.getRecentApplications", "dashboard.getTopJobs"}
\* the data the backend answers a dashboard request with
DbPayloads == {"D1", "D2"}

\* the Dashboard has mounted: its state as declared, its mount effect has
\* issued the four requests
InitDashboard ==
    /\ user = "u1"
    /\ loading = FALSE
    /\ error = NULL
    /\ mounted = TRUE
    /\ returned = NoReturn
    /\ localStorage = [token |-> "t1", user |-> Stringify("u1")]
    /\ location = "/dashboard"
    /\ navPending = FALSE
    /\ navCount = 0
    /\ inflight = {}
    /\ settling = {}
    /\ NoJobDetail
    /\ NoList
    /\ NoForm
    /\ NoSettings
    /\ stats = NULL
    /\ dbPipeline = NULL
    /\ recentApplications = "empty"
    /\ topJobs = "empty"
    /\ dbLoading = TRUE
    /\ dbInflight = DashboardOps
    /\ dbResults = << >>
    /\ dbPromise = "pending"

\* the answers the backend can give to a dashboard request
DbAnswers == {[ok |-> FALSE, data |-> NULL]} \cup { [ok |-> TRUE, data |-> x] : x \in DbPayloads }

\* a Dashboard that sets each slice as soon as its own request resolves
SetSlicesEach(results, settled) ==
    /\ stats' = IF "dashboard.getStats" \in DOMAIN results
                THEN results["dashboard.getStats"] ELSE stats
    /\ dbPipeline' = IF "dashboard.getPipelineOverview" \in DOMAIN results
                     THEN results["dashboard.getPipelineOverview"] ELSE dbPipeline
    /\ recentApplications' = IF "dashboard.getRecentApplications" \in DOMAIN results
                             THEN results["dashboard.getRecentApplications"]
                             ELSE recentApplications
    /\ topJobs' = IF "dashboard.getTopJobs" \in DOMAIN results
                  THEN results["dashboard.getTopJobs"] ELSE topJobs

\* loadDashboardData after its await: the four setters run when Promise.all
\* has fulfilled, none before
SetSlices(results, settled) ==
    IF settled
    THEN /\ stats' = results["dashboard.getStats"]
         /\ dbPipeline' = results["dashboard.getPipelineOverview"]
         /\ recentApplications' = results["dashboard.getRecentApplications"]
         /\ topJobs' = results["dashboard.getTopJobs"]
    ELSE UNCHANGED <<stats, dbPipeline, recentApplications, topJobs>>

\* an answer to one of the four requests arrives: Promise.all fulfils with
\* the last value, or rejects with the first failure; the catch only logs;
\* finally setLoading(false)
DbRespond(op, ans) ==
    LET results == IF ans.ok THEN dbResults @@ (op :> ans.data) ELSE dbResults
        fulfils == dbPromise = "pending" /\ ans.ok /\ DOMAIN results = DashboardOps
        rejects == dbPromise = "pending" /\ ~ans.ok
    IN  /\ op \in dbInflight
        /\ dbInflight' = dbInflight \ {op}
        /\ dbResults' = results
        /\ dbPromise' = IF fulfils THEN "fulfilled"
                        ELSE IF rejects THEN "rejected" ELSE dbPromise
        /\ SetSlices(results, fulfils)
        /\ dbLoading' = IF fulfils \/ rejects THEN FALSE ELSE dbLoading
        /\ UNCHANGED <<sessionVars, jdVars, lcVars, fmVars, stVars>>

\* the Dashboard
NextDashboard ==
    \E op \in DashboardOps : \E ans \in DbAnswers : DbRespond(op, ans)
SpecDashboard == InitDashboard /\ [][NextDashboard]_vars

\* ------------------------------------------------------------------------
\* Settings
\* ------------------------------------------------------------------------
\* characters typed into the threshold input
MaxText == 3
\* setTimeout callbacks pending at the same time
MaxTimers == 1

\* the characters typed: a sign, two digits, a character that is neither
Chars == {"-", "0", "1", "a"}
\* e.target.value: the texts of the threshold input
InputTexts == UNION { [1..k -> Chars] : k \in 0..MaxText }

\* the auto_invite_threshold values the backend holds (int 1-100)
ServerThresholds == {60, 100}

\* the value of a decimal digit, -1 for any other character
DigitValue(c) ==
    CASE c = "0" -> 0 [] c = "1" -> 1 [] c = "2" -> 2 [] c = "3" -> 3 [] c = "4" -> 4
      [] c = "5" -> 5 [] c = "6" -> 6 [] c = "7" -> 7 [] c = "8" -> 8 [] c = "9" -> 9
      [] OTHER -> -1

\* the longest prefix of digits
RECURSIVE DigitPrefix(_)
DigitPrefix(s) ==
    IF s = << >> \/ DigitValue(Head(s)) < 0
    THEN << >>
    ELSE <<Head(s)>> \o DigitPrefix(Tail(s))

\* the number a sequence of digits denotes in radix 10
RECURSIVE DecimalValue(_)
DecimalValue(ds) ==
    IF ds = << >>
    THEN 0
    ELSE 10 * DecimalValue(SubSeq(ds, 1, Len(ds) - 1)) + DigitValue(ds[Len(ds)])

\* parseInt(text, 10): an optional sign, then the longest prefix of digits;
\* NaN when there is no digit
parseInt(text) ==
    LET neg == text # << >> /\ Head(text) = "-"
        body == IF neg THEN Tail(text) ELSE text
        ds == DigitPrefix(body)
    IN  IF ds = << >>
        THEN [isNaN |-> TRUE, v |-> 0]
        ELSE [isNaN |-> FALSE, v |-> IF neg THEN 0 - DecimalValue(ds) ELSE DecimalValue(ds)]

Min(a, b) == IF a < b THEN a ELSE b
Max(a, b) == IF a > b THEN a ELSE b

\* a clamp without its lower bound
ClampUpperOnly(v) == Min(100, v)

\* Math.max(1, Math.min(100, v))
Clamp(v) == Max(1, Min(100, v))

\* a request of Settings: the endpoint and the body sent
StRequest(op, auto, thr) ==
    [op |-> op, auto_invite_screening |-> auto, auto_invite_threshold |-> thr]

\* Settings has mounted: its state as declared, its mount effect has issued
\* settingsAPI.get()
InitSettings ==
    /\ user = "u1"
    /\ loading = FALSE
    /\ error = NULL
    /\ mounted = TRUE
    /\ returned = NoReturn
    /\ localStorage = [token |-> "t1", user |-> Stringify("u1")]
    /\ location = "/settings"
    /\ navPending = FALSE
    /\ navCount = 0
    /\ inflight = {}
    /\ settling = {}
    /\ NoJobDetail
    /\ NoList
    /\ NoForm
    /\ NoDashboard
    /\ autoInvite = FALSE
    /\ threshold = DefaultThreshold
    /\ stLoading = TRUE
    /\ saving = FALSE
    /\ saved = FALSE
    /\ savedTimers = 0
    /\ stInflight = {StRequest("settings.get", FALSE, 0)}
    /\ typed = {}

\* what a handler of Settings leaves alone
stFrame == <<sessionVars, jdVars, lcVars, fmVars, dbVars>>

\* the switch: setAutoInvite((v) => !v)
ToggleAutoInvite ==
    /\ ~stLoading
    /\ autoInvite' = ~autoInvite
    /\ typed' = {}
    /\ UNCHANGED <<threshold, stLoading, saving, saved, savedTimers, stInflight>>
    /\ UNCHANGED stFrame

\* the threshold input's onChange, with e.target.value = text
onChange(text) ==
    LET v == parseInt(text)
    IN  /\ ~stLoading /\ autoInvite
        /\ threshold' = IF ~v.isNaN THEN Clamp(v.v) ELSE threshold
        /\ typed' = {text}
        /\ UNCHANGED <<autoInvite, stLoading, saving, saved, savedTimers, stInflight>>
        /\ UNCHANGED stFrame

\* handleSave up to its await, from the enabled Save button
handleSave ==
    /\ ~stLoading /\ ~saving
    /\ saving' = TRUE
    /\ saved' = FALSE
    /\ stInflight' = stInflight \cup {StRequest("settings.update", autoInvite, threshold)}
    /\ typed' = {}
    /\ UNCHANGED <<autoInvite, threshold, stLoading, savedTimers>>
    /\ UNCHANGED stFrame

\* the answers of the settings endpoints: a failure, or the settings the
\* backend holds (after an update: the ones just stored)
StAnswers(req) ==
    {[ok |-> FALSE, auto_invite_screening |-> FALSE, auto_invite_threshold |-> 0]} \cup
    IF req.op = "settings.get"
    THEN { [ok |-> TRUE, auto_invite_screening |-> a, auto_invite_threshold |-> x] :
             a \in BOOLEAN, x \in ServerThresholds }
    ELSE { [ok |-> TRUE, auto_invite_screening |-> req.auto_invite_screening,
            auto_invite_threshold |-> req.auto_invite_threshold] }

\* the mount effect after settingsAPI.get() settles
ContinueGetSettings(req, ans) ==
    /\ autoInvite' = IF ans.ok THEN ans.auto_invite_screening ELSE autoInvite
    /\ threshold' = IF ans.ok THEN ans.auto_invite_threshold ELSE threshold
    /\ stLoading' = FALSE
    /\ UNCHANGED <<saving, saved, savedTimers>>

\* handleSave after its await
ContinueSave(req, ans) ==
    /\ IF ans.ok
       THEN /\ savedTimers < MaxTimers
            /\ autoInvite' = ans.auto_invite_screening
            /\ threshold' = ans.auto_invite_threshold
            /\ saved' = TRUE
            /\ savedTimers' = savedTimers + 1
       ELSE UNCHANGED <<autoInvite, threshold, saved, savedTimers>>
    /\ saving' = FALSE
    /\ UNCHANGED stLoading

\* an answer arrives and the awaiting code resumes
StRespond(req, ans) ==
    /\ req \in stInflight
    /\ IF req.op = "settings.get"
       THEN ContinueGetSettings(req, ans)
       ELSE ContinueSave(req, ans)
    /\ stInflight' = stInflight \ {req}
    /\ typed' = {}
    /\ UNCHANGED stFrame

\* the timer of a successful save fires: setSaved(false)
SavedTimeout ==
    /\ savedTimers > 0
    /\ savedTimers' = savedTimers - 1
    /\ saved' = FALSE
    /\ typed' = {}
    /\ UNCHANGED <<autoInvite, threshold, stLoading, saving, stInflight>>
    /\ UNCHANGED stFrame

\* Settings
NextSettings ==
    \/ ToggleAutoInvite
    \/ \E text \in InputTexts : onChange(text)
    \/ handleSave
    \/ \E req \in stInflight : \E ans \in StAnswers(req) : StRespond(req, ans)
    \/ SavedTimeout
SpecSettings == InitSettings /\ [][NextSettings]_vars

\* ------------------------------------------------------------------------
\* Every controller with the requests that set its in-flight flags, under
\* the assumption that every issued request settles
\* ------------------------------------------------------------------------
\* the application starts, or one of the controllers has mounted
InitLive ==
    \/ InitSession /\ NoJobDetail /\ NoList /\ NoPages
    \/ InitSignedIn
    \/ InitLists
    \/ InitForms
    \/ InitDashboard
    \/ InitSettings

\* an answer to a JobDetail request of this issuer arrives
JdRespondTo(owner) ==
    \E req \in jdInflight : \E ans \in JdAnswers(req, PlainRows) :
        req.owner = owner /\ JdRespond(req, ans)

\* an answer to a request of the session store arrives
SessionRespond == \E req \in inflight : \E resp \in Responses(req) : Respond(req, resp)
\* the answers that differ in what they do to a flag: a failure, and one list
FlagAnswers == {LcAnswer(FALSE, NULL), LcAnswer(TRUE, "L1"), LcAnswer(TRUE, "S1")}
\* an answer to a request of the list controller arrives
ListRespond ==
    \E req \in lcInflight : \E ans \in LcAnswers(req) \cap FlagAnswers : LcRespond(req, ans)
\* an answer to a submission arrives
FormRespond == \E req \in fmInflight : \E ans \in FmAnswers : FmRespond(req, ans)
\* an answer to the request for a second list arrives
ListSecondRespond ==
    \E c \in lcCalls : \E ans \in SecondAnswers \cap FlagAnswers : LcSecondRespond(c, ans)
\* ApplyJob's fetchJob is answered
FetchJobRespond == \E ok \in BOOLEAN : fetchJob(ok)
\* an answer to a dashboard request arrives
DashboardRespond == \E op \in DashboardOps : \E ans \in DbAnswers : DbRespond(op, ans)
\* an answer to a settings request arrives
SettingsRespond == \E req \in stInflight : \E ans \in StAnswers(req) : StRespond(req, ans)

\* the steps that set an in-flight flag, and the answers
NextLive ==
    \/ AppStart
    \/ SessionRespond
    \/ Continue
    \/ PageReload
    \/ \E value \in ReloadPill : handlePillSelect(value)
    \/ \E id \in OperatedIds : toggleSelect(id)
    \/ handleBulkInvite
    \/ \E owner \in {"init", "filter", "bulk"} : JdRespondTo(owner)
    \/ form = "none" /\ handleSearch
    \/ form = "none" /\ \E value \in StatusOptions(lcPage) : setStatusFilter(value)
    \/ ListRespond
    \/ ListSecondRespond
    \/ OpenModal
    \/ CloseModal
    \/ \E value \in FieldValues : handleChange(value)
    \/ handleSubmit
    \/ FormRespond
    \/ FetchJobRespond
    \/ DashboardRespond
    \/ ToggleAutoInvite
    \/ handleSave
    \/ SettingsRespond
    \/ SavedTimeout

\* every issued request settles: an answer that can arrive does arrive, the
\* awaiting code resumes, the mount effect and a started page load run
Settles ==
    /\ WF_vars(AppStart)
    /\ WF_vars(SessionRespond)
    /\ WF_vars(Continue)
    /\ WF_vars(PageReload)
    /\ \A owner \in {"init", "filter", "bulk"} : WF_vars(JdRespondTo(owner))
    /\ WF_vars(ListRespond)
    /\ WF_vars(ListSecondRespond)
    /\ WF_vars(FormRespond)
    /\ WF_vars(FetchJobRespond)
    /\ WF_vars(DashboardRespond)
    /\ WF_vars(SettingsRespond)

SpecLive == InitLive /\ [][NextLive]_vars /\ Settles

\* ------------------------------------------------------------------------
\* Specifications
\* ------------------------------------------------------------------------
NextAuth ==
    \/ AppStart
    \/ \E b \in Bodies : Login(b)
    \/ \E b \in Bodies : Register(b)
    \/ \E b \in Bodies : UpdateProfile(b)
    \/ Logout
    \/ HandleLogout
    \/ \E op \in ControllerOps : ControllerCall(op)
    \/ \E op \in PublicOps : PublicCall(op)
    \/ \E req \in inflight : \E resp \in Responses(req) : Respond(req, resp)
    \/ Continue
    \/ PageReload

SpecAuth == Init /\ [][NextAuth]_vars

\* ------------------------------------------------------------------------
\* Properties of the Session Store and the gateway (checked under SpecAuth)
\* ------------------------------------------------------------------------
\* isAuthenticated: !!user
isAuthenticated == user # NULL

\* the step is the response interceptor passing an answer on
InterceptStep == settling = {} /\ settling' # {}
\* the step is the awaiting caller resuming
ContinueStep == settling # {} /\ settling' = {}
\* the gateway's share of the browser state does not change
GatewayUntouched ==
    /\ localStorage' = localStorage
    /\ location' = location
    /\ navPending' = navPending
    /\ navCount' = navCount

SignInOps == {"auth.login", "auth.register"}
Fallback(op) == IF op = "auth.login" THEN LoginFallback ELSE RegisterFallback

\* C1: a 401 answer to any call of the authenticated client (login included)
\* makes the gateway remove token and user from storage and navigate to
\* /login, once for that answer (the caller's continuation does not navigate
\* again), and the caller still sees the rejection; an answer with any other
\* status leaves storage and location as they were when it arrived.
C1_Unauthorized ==
    [][ /\ InterceptStep =>
            \A s \in settling' :
                s.req.client = "api" =>
                    IF s.resp.status = 401
                    THEN /\ getItem(localStorage', "token") = NULL
                         /\ getItem(localStorage', "user") = NULL
                         /\ location' = "/login"
                         /\ navPending'
                         /\ navCount' = navCount + 1
                         /\ s.rejected
                    ELSE GatewayUntouched
        /\ ContinueStep =>
            \A s \in settling :
                /\ navCount' = navCount /\ location' = location
                /\ (s.resp.status = 401 /\ s.req.op \in SignInOps)
                      => returned'.kind = "rejected"
      ]_vars

\* C1 witness: a login dispatched with a stored token has just been answered
\* 401 and the interceptor has navigated
C1_Witness ==
    \E s \in settling :
        /\ s.req.op = "auth.login" /\ s.resp.status = 401 /\ s.req.auth # NULL
        /\ navCount = 1 /\ location = "/login"

\* C2: when login or register succeeds with {access_token, user}, storage
\* then holds that token and that (serialized) user, the in-memory user is
\* the returned user and isAuthenticated is true.
C2_SignInPersists ==
    [][ ContinueStep =>
          \A s \in settling :
            (s.req.op \in SignInOps /\ ~s.rejected) =>
                /\ getItem(localStorage', "token") = s.resp.access_token
                /\ getItem(localStorage', "user") = Stringify(s.resp.user)
                /\ user' = s.resp.user
                /\ isAuthenticated'
                /\ returned' = [op |-> s.req.op, kind |-> "resolved", value |-> s.resp.user]
      ]_vars

\* C2 witness: a login has just resolved with a new token and user, replacing
\* a different persisted session
C2_Witness ==
    /\ returned = [op |-> "auth.login", kind |-> "resolved", value |-> "u2"]
    /\ localStorage = [token |-> "t2", user |-> Stringify("u2")]
    /\ user = "u2"

\* C3: when login or register fails, the error state becomes the backend's
\* detail string (the fixed fallback text when the answer carries no usable
\* detail: absent or empty), the call rejects with that same message, and the
\* in-memory user is not changed.
C3_SignInFailure ==
    [][ ContinueStep =>
          \A s \in settling :
            (s.req.op \in SignInOps /\ s.rejected) =>
                LET message == IF s.resp.detail \notin {NULL, ""}
                               THEN s.resp.detail ELSE Fallback(s.req.op)
                IN  /\ error' = message
                    /\ returned' = [op |-> s.req.op, kind |-> "rejected", value |-> message]
                    /\ user' = user
      ]_vars

\* C3 witness: a register call has just been rejected with the backend's
\* detail while a user is held in memory
C3_Witness ==
    /\ returned = [op |-> "auth.register", kind |-> "rejected",
                   value |-> "Invalid credentials"]
    /\ error = "Invalid credentials"
    /\ user # NULL

\* C4: logout(), in whatever state it is called, removes token and user from
\* storage, sets the in-memory user to null and issues no request.
C4_Logout ==
    [][ returned'.op = "logout" =>
            /\ getItem(localStorage', "token") = NULL
            /\ getItem(localStorage', "user") = NULL
            /\ user' = NULL
            /\ ~isAuthenticated'
            /\ inflight' = inflight
      ]_vars

\* C4 witness: logout has just run while an authenticated request, sent with
\* the token it removed, is still in flight
C4_Witness ==
    /\ returned.op = "logout"
    /\ \E r \in inflight : r.client = "api" /\ r.auth # NULL

\* C5: on application start, without a persisted token no request is issued
\* and the store becomes not-loading and unauthenticated; with one, exactly
\* one get-current-user call is issued, and if it fails token and user are
\* removed from storage, the failure path leaves the in-memory user and the
\* error state as they are (null), and loading becomes false.
C5_Startup ==
    [][ /\ (~mounted /\ mounted') =>
            IF ~Truthy(getItem(localStorage, "token"))
            THEN /\ inflight' = {} /\ ~loading' /\ user' = NULL /\ ~isAuthenticated'
            ELSE /\ Cardinality(inflight') = 1
                 /\ \A r \in inflight' : r.op = "auth.getCurrentUser" /\ r.client = "api"
                 /\ loading' /\ user' = NULL
        /\ ContinueStep =>
            \A s \in settling :
                (s.req.op = "auth.getCurrentUser" /\ s.rejected) =>
                    /\ getItem(localStorage', "token") = NULL
                    /\ getItem(localStorage', "user") = NULL
                    /\ user' = user
                    /\ error' = error
                    /\ ~loading'
      ]_vars

\* C5 witness: the start-up call has just failed; storage is cleared and the
\* store is unauthenticated, not loading, without error
C5_Witness ==
    /\ returned = [op |-> "auth.getCurrentUser", kind |-> "caught", value |-> NULL]
    /\ localStorage = [token |-> NULL, user |-> NULL]
    /\ user = NULL /\ error = NULL /\ ~loading
    /\ navCount = 0

\* C6: every request sent through the authenticated client carries the
\* bearer token that storage holds when it is dispatched, and no
\* Authorization header when storage holds none.
C6_BearerAtDispatch ==
    [][ \A r \in inflight' \ inflight :
            r.client = "api" =>
                r.auth = IF getItem(localStorage, "token") \in Tokens
                         THEN "Bearer " \o getItem(localStorage, "token")
                         ELSE NULL
      ]_vars

\* C6 witness: a request sent with the old token is still in flight next to
\* one sent after a later login, which carries the new token
C6_Witness ==
    /\ \E r \in inflight : r.client = "api" /\ r.auth = "Bearer t1"
    /\ \E r \in inflight : r.client = "api" /\ r.auth = "Bearer t2"
    /\ getItem(localStorage, "token") = "t2"

\* C7: a request of the public client never carries a credential, whatever
\* token storage holds, and the answer to a public request, a 401 included,
\* changes neither storage nor the session nor the location.
C7_PublicNoCredential ==
    [][ /\ \A r \in inflight' : r.client = "public" => r.auth = NULL
        /\ \A s \in settling \cup settling' :
              s.req.client = "public" =>
                /\ GatewayUntouched
                /\ user' = user /\ error' = error /\ loading' = loading
      ]_vars

\* C7 witness: a public request, sent while a token was stored, has just been
\* answered 401 and the session is still in place
C7_Witness ==
    /\ \E s \in settling : s.req.client = "public" /\ s.resp.status = 401
    /\ getItem(localStorage, "token") \in Tokens
    /\ user # NULL

\* ------------------------------------------------------------------------
\* JobDetail properties
\* ------------------------------------------------------------------------
\* the answer just delivered is the success of a single-row invite of application id
InviteSucceeded(id) ==
    \E d \in jdDelivered : d.ok /\ d.req.op = "screenings.create" /\ d.req.id = id

\* an answer in delivered is a server response that carries status s for application id
StatusFromServer(delivered, id, s) ==
    \E d \in delivered :
        /\ d.ok
        /\ \/ d.req.op = "applications.getAll"
           \/ /\ d.req.op \in {"applications.shortlist", "applications.reject"}
              /\ d.rec.id = id
              /\ d.rec.status = s

\* C8: the invite action of a row is not permitted while the application has
\* a scheduled or in_progress screening; once a single-row invite of a row
\* has succeeded, the invite action of that row is disabled (its screening is
\* scheduled), so no second screening is created for it.
C8_InviteBlocked ==
    \A id \in DOMAIN applications :
        InviteSucceeded(id) => ActionDisabled("invite", applications[id])

\* C9: the status of an application held by the client changes only to a
\* value taken from a server response: the record returned by shortlist or
\* reject, or a reloaded list.
C9_StatusFromServer ==
    [][\A id \in (DOMAIN applications) \cap (DOMAIN applications') :
          applications'[id].status # applications[id].status
              => StatusFromServer(jdDelivered', id, applications'[id].status)]_vars

\* C10: in every state the selection holds only ids of applications of the
\* loaded list, also while a refetch is in flight and after its answer has
\* replaced the list.
C10_SelectionScoped == selected \subseteq DOMAIN applications

\* a step that changes the filter: a funnel segment or a pill was clicked
FilterStep ==
    \/ \E r \in jdInflight' \ jdInflight : r.owner = "filter"
    \/ statusFilter' # statusFilter
    \/ funnelStage' # funnelStage

\* C11: every filter change (a funnel segment clicked, the active segment
\* re-clicked, a status pill clicked) leaves the selection empty, whatever
\* was selected before.
C11_FilterClearsSelection == [][FilterStep => selected' = {}]_vars

\* a filter was clicked while the bulk invite of a non-empty selection was
\* still pending: the selection is empty
C11_Witness ==
    /\ \E r \in jdInflight : r.owner = "filter"
    /\ \E b \in jdInflight : b.op = "applications.bulkInviteScreening" /\ b.ids # {}
    /\ jdDelivered = {}
    /\ selected = {}

\* the bulk-invite requests in flight
BulkRequests(infl) == { r \in infl : r.op = "applications.bulkInviteScreening" }

\* the requests of the bulk action (the invite, then its reloads) in flight
BulkPending(infl) == { r \in infl : r.owner = "bulk" }

\* C12: invoking the bulk invite with selection S sends the bulk request
\* once, with application_ids = S, and none while a bulk action is pending;
\* when the bulk request has succeeded the selection is empty and both the
\* pipeline summary and the application list are requested again.
C12_BulkInvite ==
    [][/\ \A r \in BulkRequests(jdInflight') \ BulkRequests(jdInflight) :
            /\ r.ids = selected /\ selected # {}
            /\ BulkPending(jdInflight) = {} /\ ~bulkLoading
            /\ BulkRequests(jdInflight') = {r}
       /\ Cardinality(BulkRequests(jdInflight')) <= 1
       /\ BulkPending(jdInflight') # {} => bulkLoading'
       /\ \A d \in jdDelivered' :
            (d.ok /\ d.req.op = "applications.bulkInviteScreening") =>
                /\ selected' = {}
                /\ PipelineRequest("bulk") \in jdInflight'
                /\ \E l \in jdInflight' : l.op = "applications.getAll" /\ l.owner = "bulk"
                /\ BulkRequests(jdInflight') = {}]_vars

\* the bulk invite of applications 5 and 9 has just succeeded
C12_Witness ==
    /\ \E d \in jdDelivered :
          d.ok /\ d.req.op = "applications.bulkInviteScreening" /\ d.req.ids = {5, 9}
    /\ selected = {}
    /\ BulkPending(jdInflight) = refreshAll(statusFilter)

\* the fixed stage -> pill table as documented
DocumentedPill(stage) == IF stage = "applied" THEN NULL ELSE stage

\* the application-list request a click on pill p issues: status = p, omitted for "All"
PillRequest(p) == JdRequest("applications.getAll", p, NoId, {}, "filter")

\* C13: selecting funnel segment s issues the same application-list request
\* and leaves the same statusFilter as a click on the pill the fixed table
\* maps s to (applied -> All, the others -> the pill of the same name); a
\* click on pill p issues the request with status p, omitted for All.
C13_FunnelAsPill ==
    [][FilterStep =>
         /\ jdInflight' \ jdInflight = {PillRequest(statusFilter')}
         /\ funnelStage' # NULL => statusFilter' = DocumentedPill(funnelStage')]_vars

\* funnel segment rejected was selected: the rejected list is requested
C13_Witness ==
    /\ funnelStage = "rejected"
    /\ statusFilter = "rejected"
    /\ PillRequest("rejected") \in jdInflight
    /\ jdDelivered = {}

\* the header action set as documented per job status
DocumentedActions(status) ==
    CASE status = "draft" -> {"publish"}
      [] status = "active" -> {"pause", "close"}
      [] status = "paused" -> {"reopen", "close"}
      [] status = "closed" -> {}

\* the header requests newly in flight after a step
NewHeaderRequests == { r \in jdInflight' \ jdInflight : r.owner = "header" }

\* C14: for every job status the header exposes exactly the documented
\* actions (draft: publish; active: pause, close; paused: reopen, close;
\* closed: none), and only an exposed action is ever issued.
C14_HeaderActions ==
    [][/\ JdInteractive' => HeaderActions(job') = DocumentedActions(job')
       /\ \A r \in NewHeaderRequests :
            \E a \in DocumentedActions(job) : r = JobActionRequest(a)]_vars

\* a close has succeeded and the job is closed: the header exposes nothing
C14_Witness ==
    /\ \E d \in jdDelivered : d.ok /\ d.req.op = "jobs.close" /\ d.text = "closed"
    /\ job = "closed"
    /\ HeaderActions(job) = {}

\* C17: when a header action succeeds the job record is the record of the
\* server's response; when it fails the job record is unchanged; the job
\* record changes in no other way.
C17_JobFromServer ==
    [][/\ \A d \in jdDelivered' :
            d.req.op \in JobOps => job' = IF d.ok THEN d.text ELSE job
       /\ job' # job => \E d \in jdDelivered' : d.ok /\ d.req.op \in JobOps /\ d.text = job']_vars

\* a pause succeeded and the server answered with a record whose status is
\* not the requested one: the job is the answered record
C17_Witness ==
    \E d \in jdDelivered :
        /\ d.ok /\ d.req.op = "jobs.update" /\ d.req.status = "paused"
        /\ d.text = "closed"
        /\ job = "closed"

\* the documented disabling of a row's buttons
DocumentedDisabled(type, app) ==
    CASE type = "invite" -> app.screenings \cap {"scheduled", "in_progress"} # {}
      [] type = "approve" -> app.status \in {"shortlisted", "interview", "offered", "hired"}
      [] type = "reject" -> app.status = "rejected"

RowActionTypes == {"invite", "approve", "reject"}

\* C15: in a candidate row invite is disabled exactly when the screenings
\* include a scheduled or in_progress one, approve exactly when the status is
\* shortlisted, interview, offered or hired, reject exactly when the status
\* is rejected; a row action is issued only from an enabled button.
C15_RowButtons ==
    [][/\ \A id \in DOMAIN applications : \A type \in RowActionTypes :
            ActionDisabled(type, applications[id])
                <=> DocumentedDisabled(type, applications[id])
       /\ \A id \in DOMAIN applications' : \A type \in RowActionTypes :
            ActionDisabled(type, applications'[id])
                <=> DocumentedDisabled(type, applications'[id])
       /\ \A r \in jdInflight' \ jdInflight : \A type \in RowActionTypes :
            (r.owner = "action" /\ r.op = ActionOp(type))
                => ~DocumentedDisabled(type, applications[r.id])]_vars

\* an invite was issued for a row whose screenings are finished ones only
C15_Witness ==
    /\ 5 \in DOMAIN applications
    /\ applications[5].screenings = {"completed", "cancelled"}
    /\ \E r \in jdInflight : r.op = "screenings.create" /\ r.id = 5
    /\ disableApprove(applications[5]) /\ ~disableReject(applications[5])

\* the endpoints of the single-row operations
RowOps ==
    {"screenings.create", "applications.shortlist", "applications.reject",
     "applications.update"}

\* a step leaves the selection and both filters as they were
SelectionAndFiltersKept ==
    selected' = selected /\ statusFilter' = statusFilter /\ funnelStage' = funnelStage

\* C16: a single-row operation (invite, approve, reject, save note) changes
\* at most the row of the operated application: no row is added or removed,
\* every other row is unchanged, and the selection, statusFilter and
\* funnelStage are unchanged; when its endpoint call fails the list is
\* unchanged. The pipeline refetch it triggers changes none of these either.
C16_RowOpFrame ==
    [][/\ \A r \in jdInflight' \ jdInflight :
            r.op \in RowOps => applications' = applications /\ SelectionAndFiltersKept
       /\ \A d \in jdDelivered' :
            /\ d.req.op \in RowOps =>
                 /\ DOMAIN applications' = DOMAIN applications
                 /\ \A a \in DOMAIN applications :
                      a # d.req.id => applications'[a] = applications[a]
                 /\ ~d.ok => applications' = applications
                 /\ SelectionAndFiltersKept
            /\ (d.req.op = "jobs.getPipeline" /\ d.req.owner = "action") =>
                 applications' = applications /\ SelectionAndFiltersKept]_vars

\* a note was saved on application 5 of a filtered list of two with a
\* selection: row 5 holds the answered record, row 9 is as it was listed
C16_Witness ==
    /\ \E d \in jdDelivered :
          d.ok /\ d.req.op = "applications.update" /\ d.req.id = 5 /\ d.rec.status = "rejected"
    /\ DOMAIN applications = {5, 9}
    /\ applications[5].status = "rejected"
    /\ applications[9] = Row("pending", {})
    /\ statusFilter = "pending"
    /\ selected = {9}

\* ------------------------------------------------------------------------
\* List controller properties
\* ------------------------------------------------------------------------
\* a query parameter as documented: the filter value, omitted when it is empty
Omittable(v) == IF v = "" THEN NULL ELSE v

\* a step that changes a status or category filter
ListFilterStep ==
    lcStatusFilter' # lcStatusFilter \/ selectedJob' # selectedJob \/ jobType' # jobType

\* the list requests newly in flight after a step
NewListRequests == { r \in lcInflight' \ lcInflight : r.op \in ListOps }

\* C18: in Jobs, Applications, Screenings and BrowseJobs every change of a
\* status or category filter (statusFilter, selectedJob, jobType) triggers a
\* list request whose query parameters are the filter values after the
\* change, empty filters omitted.
C18_FilterRefetch ==
    [][ListFilterStep =>
         /\ Cardinality(NewListRequests) = 1
         /\ \A r \in NewListRequests :
              /\ r.status = Omittable(lcStatusFilter')
              /\ r.job_id = Omittable(selectedJob')
              /\ r.job_type = Omittable(jobType')
              /\ r.op = Load(lcPage, "", "", "", "", "", "filter").op]_vars

\* Jobs: the status filter was changed to active while the load for draft
\* was still pending; the request for active is in flight
C18_Witness ==
    /\ lcPage = "Jobs"
    /\ lcStatusFilter = "active"
    /\ \E r \in lcInflight : r.owner = "filter" /\ r.status = "active"
    /\ \E r \in lcInflight : r.owner = "filter" /\ r.status = "draft"
    /\ lcDelivered = {}

\* C19: search text is submitted only by the search form: in every list
\* request the search parameter is the text as of the last submit of the
\* form (absent when nothing was submitted), never text typed and not
\* submitted, whatever triggered the request.
C19_SearchOnSubmit ==
    [][\A r \in NewListRequests : r.search = Omittable(submitted')]_vars

\* the answer just delivered settles a row action of the list controller
ActionSettled(delivered) == { d \in delivered : d.part = "action" }

\* C20: in Jobs, Applications and Screenings each row action calls its
\* endpoint and reloads the full list once the call has settled, whatever
\* its outcome; it never modifies the list itself, which changes only by
\* being replaced with the list of a list response.
C20_ActionReloads ==
    [][/\ \A d \in ActionSettled(lcDelivered') :
            /\ Cardinality(NewListRequests) = 1
            /\ lcItems' = lcItems
       /\ lcItems' # lcItems =>
            \E d \in lcDelivered' : d.outcome = "fulfilled" /\ d.list = lcItems']_vars

\* C22: list fetches of one controller are not coordinated: whenever the
\* await of a fetch resolves successfully the list state becomes the list it
\* was answered with, whatever else is in flight and whenever the fetch was
\* issued; so after two concurrent fetches have settled the list is that of
\* the one that resolved last, which can be the result for a filter other
\* than the selected one. (Applications and Screenings await the list request
\* together with a second request: their fetch resolves with the later of
\* its two answers.)
C22_LastResponseWins ==
    \A d \in lcDelivered : d.outcome = "fulfilled" => lcItems = d.list

\* Jobs: the status filter was set to draft while the mount load was pending;
\* the draft list resolved first, the mount load (no status) resolved last:
\* both have settled and the list shown under the draft filter is the
\* unfiltered one
C22_Witness ==
    /\ lcPage = "Jobs"
    /\ lcStatusFilter = "draft"
    /\ lcInflight = {}
    /\ \E d \in lcDelivered :
          /\ d.ok /\ d.req.owner = "mount" /\ d.req.status = NULL
          /\ d.payload = "L1" /\ lcItems = "L1"

\* the filter and search state of a list controller
lcFilters == <<searchTerm, searchInput, search, lcStatusFilter, selectedJob, jobType>>

\* C26: issuing a list refetch leaves the item list as it is; the list
\* changes only when a fetch succeeds, and then to the list that fetch was
\* answered with; a failed fetch leaves the list (and the filters) unchanged
\* and sets loading to false. (A fetch of Applications or Screenings succeeds
\* when both its requests have, and fails with the first of them that fails;
\* an answer that leaves the fetch waiting, or comes after it has failed,
\* changes nothing.)
C26_ListRetained ==
    [][/\ NewListRequests # {} => lcItems' = lcItems
       /\ lcItems' # lcItems =>
            \E d \in lcDelivered' : d.outcome = "fulfilled"
       /\ \A d \in lcDelivered' :
            d.part # "action" =>
               CASE d.outcome = "fulfilled" -> lcItems' = d.list
                 [] d.outcome = "rejected" ->
                      lcItems' = lcItems /\ lcLoading' = FALSE /\ lcFilters' = lcFilters
                 [] OTHER ->
                      lcItems' = lcItems /\ lcLoading' = lcLoading
                         /\ lcFilters' = lcFilters]_vars

\* Screenings: with a list loaded, the refetch after a filter change has
\* failed: its list request had been answered and its second request has now
\* failed; the list loaded before is still held and loading is false
C26_Witness ==
    /\ lcPage = "Screenings"
    /\ lcStatusFilter = "scheduled"
    /\ lcItems = "L2"
    /\ ~lcLoading
    /\ lcInflight = {}
    /\ \E d \in lcDelivered :
          /\ ~d.ok /\ d.part = "second" /\ d.outcome = "rejected"
          /\ d.req.owner = "filter" /\ d.req.status = "scheduled"

\* ------------------------------------------------------------------------
\* JobDetail: the reload after a bulk invite, the filter invariant, select-all
\* ------------------------------------------------------------------------
\* the list reloads a bulk invite newly puts in flight
NewBulkReloads ==
    { r \in jdInflight' \ jdInflight : r.op = "applications.getAll" /\ r.owner = "bulk" }

\* C23: the application-list reload that follows a bulk invite requests the
\* list for the status filter in effect when the reload is issued, also when
\* the filter was changed while the bulk-invite call was in flight.
C23_BulkReloadCurrentFilter ==
    [][\A r \in NewBulkReloads : r = ListRequest(statusFilter', "bulk")]_vars

\* ------------------------------------------------------------------------
\* Session Store: authentication and the stored token
\* ------------------------------------------------------------------------
\* C24: in every reachable state of the Session Store, isAuthenticated
\* (user not null) implies that a token is present in storage; so after
\* logout() the session stays unauthenticated, also when the answer to a call
\* issued before the logout arrives after it.
C24_AuthImpliesToken ==
    isAuthenticated => Truthy(getItem(localStorage, "token"))

\* C25: whenever funnelStage is not null, statusFilter is the fixed table
\* entry for it (applied gives null, screening, shortlisted and rejected give
\* the pill of the same name); every status-pill click leaves funnelStage
\* null; a re-click of the active funnel segment leaves both funnelStage and
\* statusFilter null.
C25_FunnelPillInvariant ==
    [][/\ funnelStage' # NULL => statusFilter' = DocumentedPill(funnelStage')
       /\ \A value \in FILTER_PILLS : handlePillSelect(value) => funnelStage' = NULL
       /\ \A item \in FunnelStages :
            (item = funnelStage /\ FunnelClick(item)) =>
               (funnelStage' = NULL /\ statusFilter' = NULL)]_vars

\* the rejected segment was clicked after the pending pill: the segment is
\* active, the pill filter is the one the table gives, its list is requested
C25_Witness ==
    /\ funnelStage = "rejected"
    /\ statusFilter = "rejected"
    /\ ListRequest("rejected", "filter") \in jdInflight
    /\ ListRequest("pending", "filter") \in jdInflight

\* every row of the loaded application list is selected
EveryRowSelected == DOMAIN applications \subseteq selected

\* C28: the select-all control is shown checked exactly when every row of
\* the loaded application list is selected; toggleAll invoked when not every
\* loaded row is selected makes the selection exactly the set of loaded
\* application ids, and invoked when every loaded row is selected makes the
\* selection empty.
C28_SelectAll ==
    [][/\ (JdInteractive /\ DOMAIN applications # {}) => (allSelected <=> EveryRowSelected)
       /\ toggleAll =>
            selected' = IF EveryRowSelected THEN {} ELSE DOMAIN applications]_vars

\* ------------------------------------------------------------------------
\* Form controller properties
\* ------------------------------------------------------------------------
\* the submissions of modal instance i (of ApplyJob: of the page) in flight after a step
SubmissionsOf(i) == { r \in fmInflight' : r.inst = i }

\* a step invoked the success callback: the modal was closed, a list reload
\* was issued, or ApplyJob turned to its submitted view
SuccessCallbackInvoked ==
    \/ showCreateModal' # showCreateModal
    \/ lcInflight' # lcInflight
    \/ applySubmitted' # applySubmitted

\* C21: every form controller (create job, create candidate, create
\* application, schedule screening, public apply) has its submit control
\* disabled from submission until the request settles, so at most one
\* submission per form is in flight; when a submission fails the error shown
\* is the backend's detail string verbatim, or the form's fixed fallback when
\* the answer carries none, the success callback is not invoked, and the
\* submit control is enabled again.
C21_FormSubmit ==
    [][/\ \A r \in fmInflight' :
            (FormShown' /\ r.inst = fmInst') => SubmitDisabled'
       /\ \A i \in 1..MaxOpens : Cardinality(SubmissionsOf(i)) <= 1
       /\ \A d \in fmDelivered' :
            ~d.ok =>
               /\ ~SuccessCallbackInvoked
               /\ Mounted(d.req) =>
                    /\ Truthy(d.detail) => fmError' = d.detail
                    /\ d.detail = NULL => fmError' = FormFallback(form)
                    /\ d.detail = "" => fmError' \in {"", FormFallback(form)}
                    /\ ~fmLoading'
                    /\ (Truthy(formData') => ~SubmitDisabled')]_vars

\* the first modal instance was closed with its submission pending and the
\* modal opened again; the submission of the second instance has failed: its
\* error is the backend's detail, the modal is still open and submittable,
\* and the first submission is still in flight
C21_Witness ==
    /\ form = "CreateApplicationModal"
    /\ showCreateModal /\ fmInst = 2
    /\ \E d \in fmDelivered :
          ~d.ok /\ d.req.inst = 2 /\ d.detail = "Email already registered"
    /\ fmError = "Email already registered"
    /\ ~fmLoading /\ ~SubmitDisabled
    /\ \E r \in fmInflight : r.inst = 1
    /\ lcInflight = {}

\* ------------------------------------------------------------------------
\* Dashboard properties
\* ------------------------------------------------------------------------
\* the four state slices
slices == <<stats, dbPipeline, recentApplications, topJobs>>

\* the requests of the initial load that have failed
FailedOps == DashboardOps \ (dbInflight \cup DOMAIN dbResults)

\* C27: the Dashboard's four state slices (summary statistics, pipeline
\* overview, recent applications, top jobs) are set all together or not at
\* all: they change only in the step in which the last of the four requests
\* resolves with nothing failed, and then each to its own answer; if any
\* request has failed they keep their initial values; loading is false once
\* all have resolved or one has failed; no request is issued after the
\* initial load.
C27_DashboardAtomic ==
    [][/\ slices' # slices =>
            /\ FailedOps' = {} /\ dbInflight' = {}
            /\ slices' = <<dbResults'["dashboard.getStats"],
                           dbResults'["dashboard.getPipelineOverview"],
                           dbResults'["dashboard.getRecentApplications"],
                           dbResults'["dashboard.getTopJobs"]>>
       /\ (FailedOps' = {} /\ dbInflight' = {}) => (stats' # NULL /\ ~dbLoading')
       /\ FailedOps' # {} => (slices' = <<NULL, NULL, "empty", "empty">> /\ ~dbLoading')
       /\ dbInflight' \subseteq dbInflight]_vars

\* three requests have resolved and the top-jobs request has failed: no
\* slice is set and loading is false
C27_Witness ==
    /\ FailedOps = {"dashboard.getTopJobs"}
    /\ DOMAIN dbResults = DashboardOps \ {"dashboard.getTopJobs"}
    /\ slices = <<NULL, NULL, "empty", "empty">>
    /\ ~dbLoading

\* ------------------------------------------------------------------------
\* Settings properties
\* ------------------------------------------------------------------------
\* the text is an integer numeral: an optional minus sign and digits only
IsNumeral(text) ==
    LET body == IF text # << >> /\ text[1] = "-" THEN Tail(text) ELSE text
    IN  body # << >> /\ \A i \in 1..Len(body) : DigitValue(body[i]) >= 0

\* the integer a numeral denotes
NumeralValue(text) ==
    IF text[1] = "-" THEN 0 - DecimalValue(Tail(text)) ELSE DecimalValue(text)

\* the text does not start with a number
NonNumeric(text) ==
    LET body == IF text # << >> /\ text[1] = "-" THEN Tail(text) ELSE text
    IN  body = << >> \/ DigitValue(body[1]) < 0

\* C30: after any sequence of edits of the threshold input, starting from
\* the default 75 or from an in-range value loaded from the server, the
\* threshold held by the controller and sent by Save as
\* auto_invite_threshold is an integer between 1 and 100 inclusive; an edit
\* to a numeral leaves the numeral's value clamped to the nearest of the
\* bounds 1 and 100, and a non-numeric edit leaves the threshold unchanged.
C30_ThresholdRange ==
    [][/\ threshold' \in 1..100
       /\ \A r \in stInflight' :
            r.op = "settings.update" => r.auto_invite_threshold \in 1..100
       /\ \A text \in typed' :
            /\ IsNumeral(text) =>
                 threshold' = (IF NumeralValue(text) < 1 THEN 1
                               ELSE IF NumeralValue(text) > 100 THEN 100
                               ELSE NumeralValue(text))
            /\ NonNumeric(text) => threshold' = threshold]_vars

\* 11 was typed and Save clicked; with that request in flight, -10 was
\* typed: the threshold held is 1, the one in the request is 11
C30_Witness ==
    /\ typed = {<<"-", "1", "0">>}
    /\ threshold = 1
    /\ autoInvite
    /\ saving
    /\ StRequest("settings.update", TRUE, 11) \in stInflight

\* ------------------------------------------------------------------------
\* In-flight flags
\* ------------------------------------------------------------------------
\* C29: provided every issued request settles, every in-flight flag that was
\* set true becomes false again: the Session Store's loading, the list
\* controller's loading, JobDetail's loading and bulkLoading, the form's
\* loading / submitting, ApplyJob's loading, Settings' loading and saving,
\* the Dashboard's loading; no failure path leaves one stuck.
C29_FlagsReset ==
    /\ loading ~> ~loading
    /\ (lcPage # "none" /\ lcLoading) ~> ~lcLoading
    /\ (jdInflight # {} /\ jdLoading) ~> ~jdLoading
    /\ bulkLoading ~> ~bulkLoading
    /\ fmLoading ~> ~fmLoading
    /\ (form = "ApplyJob" /\ applyLoading) ~> ~applyLoading
    /\ (stInflight # {} /\ stLoading) ~> ~stLoading
    /\ saving ~> ~saving
    /\ (dbInflight # {} /\ dbLoading) ~> ~dbLoading

\* the bulk invite has failed: the answer is a failure and bulkLoading is
\* false again, the selection still in place
C29_Witness ==
    /\ \E d \in jdDelivered : ~d.ok /\ d.req.op = "applications.bulkInviteScreening"
    /\ ~bulkLoading
    /\ selected # {}

====
